---- MODULE Spec2Model ----
(***************************************************************************)
(* Binary serialization of node trees, src/backend/nodes/outfast.c.        *)
(*                                                                         *)
(* The output buffer is a sequence of bytes (0..255).  Multi-byte fields   *)
(* are the in-memory representation of the value on a little-endian LP64   *)
(* host, which is what appendBinaryStringInfo(&field, sizeof field)        *)
(* copies.  A variant encoder is the sequence of its field writes, in the  *)
(* order of the statements of its C function; Run executes such a          *)
(* sequence against the buffer and stops at the first elog(ERROR).         *)
(***************************************************************************)
EXTENDS Integers, Sequences, FiniteSets, TLC

VARIABLES
    print_variable_fields,  \* static bool print_variable_fields
    range_table,            \* static List *range_table
    failed_assertion,       \* "none", or the text of the Assert that aborted the backend
    last_call,              \* name of the entry point called last
    opened,                 \* history: an init call has been made and no end call since
    at_entry,               \* history: the mode variables and opened as the last init/end call found them
    ret,                    \* what the last nodeToBinaryStringFast call delivered
    prev,                   \* history: ret as it was before the last encode (kept by EncodeH only)
    call                    \* the encode in progress, statement by statement (stepwise actions only)

vars == <<print_variable_fields, range_table, failed_assertion, last_call,
          opened, at_entry, ret, prev, call>>

-----------------------------------------------------------------------------
(* Bounds of the model                                                     *)

MaxListLen == 2
MaxWords == 2

-----------------------------------------------------------------------------
(* Widths of the C types on the modelled host                              *)

SizeofInt16 == 2
SizeofInt == 4
SizeofOid == 4
SizeofLong == 8
SizeofUint64 == 8
SizeofDouble == 8
SizeofAttrNumber == 2
SizeofBitmapword == 4
SizeofDatum == 8
SizeofSize == 8

(* Node tags, enum NodeTag.  T_Invalid = 0 is the first enumerator; the    *)
(* others are distinct positive enumerators.                               *)
T_Invalid == 0
T_IndexInfo == 10
T_Agg == 133
T_Sort == 137
T_Motion == 142
T_Flow == 330
T_PlannedStmt == 100
T_Const == 303
T_RangeTblEntry == 704
T_A_Expr == 710
T_A_Const == 713
T_Constraint == 731
T_Integer == 651
T_Float == 652
T_String == 653
T_BitString == 654
T_Null == 655
T_List == 656
T_IntList == 657
T_OidList == 658

(* enum RTEKind                                                            *)
RTE_RELATION == 0
RTE_SUBQUERY == 1
RTE_JOIN == 2
RTE_SPECIAL == 3
RTE_FUNCTION == 4
RTE_VALUES == 5
RTE_VOID == 6
RTE_CTE == 7
RTE_TABLEFUNCTION == 8

(* enum A_Expr_Kind                                                        *)
AEXPR_OP == 0
AEXPR_AND == 1
AEXPR_OR == 2
AEXPR_NOT == 3
AEXPR_OP_ANY == 4
AEXPR_OP_ALL == 5
AEXPR_DISTINCT == 6
AEXPR_NULLIF == 7
AEXPR_OF == 8
AEXPR_IN == 9

(* enum ConstrType; CONSTR_FOREIGN is an enumerator with no case in        *)
(* _outConstraint                                                          *)
CONSTR_NULL == 0
CONSTR_NOTNULL == 1
CONSTR_DEFAULT == 2
CONSTR_CHECK == 3
CONSTR_FOREIGN == 4
CONSTR_PRIMARY == 5
CONSTR_UNIQUE == 6
CONSTR_ATTR_DEFERRABLE == 7
CONSTR_ATTR_NOT_DEFERRABLE == 8
CONSTR_ATTR_DEFERRED == 9
CONSTR_ATTR_IMMEDIATE == 10

(* The null pointer, for node pointers and char pointers alike.            *)
NULL == [null |-> TRUE]

nodeTag(node) == node.type
IsA(node, tag) == nodeTag(node) = tag

-----------------------------------------------------------------------------
(* In-memory representation of an integer of n bytes: two's complement,    *)
(* least significant byte first.  Taking fewer bytes than the value needs  *)
(* is the C narrowing conversion.                                          *)
RECURSIVE LE(_, _)
LE(v, n) == IF n = 0 THEN <<>> ELSE <<v % 256>> \o LE(v \div 256, n - 1)

RECURSIVE Flatten(_)
Flatten(ss) == IF ss = <<>> THEN <<>> ELSE Head(ss) \o Flatten(Tail(ss))

(* Steps of an encoder: append bytes, walk a child, raise, warn.           *)
Bytes(b) == [k |-> "bytes", b |-> b]
Walk(obj) == [k |-> "node", obj |-> obj]
Raise(msg) == [k |-> "error", msg |-> msg]
Warn(msg) == [k |-> "warning", msg |-> msg]

(* variant: the bytes are put at the start of the buffer                   *)
appendBinaryStringInfo_rewind(str, data) ==
    [str EXCEPT !.data = data \o SubSeq(@, Len(data) + 1, Len(@)),
                !.len = IF Len(data) > @ THEN Len(data) ELSE @]

appendBinaryStringInfo(str, data) ==
    [str EXCEPT !.data = @ \o data, !.len = @ + Len(data)]

WRITE_NODE_TYPE(node) == Bytes(LE(nodeTag(node), SizeofInt16))
WRITE_INT_FIELD(fld) == Bytes(LE(fld, SizeofInt))
WRITE_UINT_FIELD(fld) == Bytes(LE(fld, SizeofInt))
WRITE_UINT64_FIELD(fld) == Bytes(LE(fld, SizeofUint64))
WRITE_OID_FIELD(fld) == Bytes(LE(fld, SizeofOid))
WRITE_LONG_FIELD(fld) == Bytes(LE(fld, SizeofLong))
WRITE_ENUM_FIELD(fld) == Bytes(LE(fld, SizeofInt16))
(* a double field is held as its 8 bytes in memory                         *)
WRITE_FLOAT_FIELD(fld) == Bytes(SubSeq(fld, 1, SizeofDouble))
WRITE_BOOL_FIELD(fld) == Bytes(<<IF fld THEN 1 ELSE 0>>)
(* a char pointer is NULL or the address of a run of characters           *)
CString(chars) == [chars |-> chars]
strlen(s) == Len(s.chars)
(* variant: the terminator of a non-null string is written too             *)
WRITE_STRING_FIELD_terminated(fld) ==
    LET slen == IF fld # NULL THEN strlen(fld) ELSE 0
    IN  Bytes(LE(slen, SizeofInt) \o (IF fld # NULL THEN fld.chars \o <<0>> ELSE <<>>))

WRITE_STRING_FIELD(fld) ==
    LET slen == IF fld # NULL THEN strlen(fld) ELSE 0
    IN  Bytes(LE(slen, SizeofInt) \o (IF slen > 0 THEN SubSeq(fld.chars, 1, strlen(fld)) ELSE <<>>))
WRITE_NODE_FIELD(fld) == Walk(fld)
WRITE_INT_ARRAY(fld, count, sz) ==
    Bytes(IF count > 0 THEN Flatten([i \in 1..count |-> LE(fld[i], sz)]) ELSE <<>>)
WRITE_OID_ARRAY(fld, count) ==
    Bytes(IF count > 0 THEN Flatten([i \in 1..count |-> LE(fld[i], SizeofOid)]) ELSE <<>>)

-----------------------------------------------------------------------------
(* Container and leaf encoders                                             *)

(* variants of _outList: null cells of a generic list are skipped; the     *)
(* cells of an integer list are written as tagged Integer leaves; a null   *)
(* list is written as a list of no cells                                   *)
_outList_skipnull(node) ==
    IF node = NULL
    THEN <<Bytes(LE(0, SizeofInt16))>>
    ELSE <<WRITE_NODE_TYPE(node), WRITE_INT_FIELD(node.length)>> \o
         Flatten([i \in 1..Len(node.elems) |->
             IF IsA(node, T_List)
             THEN (IF node.elems[i] = NULL THEN <<>> ELSE <<Walk(node.elems[i])>>)
             ELSE IF IsA(node, T_IntList) THEN <<Bytes(LE(node.elems[i], SizeofInt))>>
             ELSE IF IsA(node, T_OidList) THEN <<Bytes(LE(node.elems[i], SizeofOid))>>
             ELSE <<>>])

_outList_tagints(node) ==
    IF node = NULL
    THEN <<Bytes(LE(0, SizeofInt16))>>
    ELSE <<WRITE_NODE_TYPE(node), WRITE_INT_FIELD(node.length)>> \o
         Flatten([i \in 1..Len(node.elems) |->
             IF IsA(node, T_List) THEN <<Walk(node.elems[i])>>
             ELSE IF IsA(node, T_IntList)
             THEN <<Walk([type |-> T_Integer, val |-> [ival |-> node.elems[i]]])>>
             ELSE IF IsA(node, T_OidList) THEN <<Bytes(LE(node.elems[i], SizeofOid))>>
             ELSE <<>>])

_outList_nilempty(node) ==
    IF node = NULL
    THEN <<Bytes(LE(T_List, SizeofInt16)), Bytes(LE(0, SizeofInt))>>
    ELSE <<WRITE_NODE_TYPE(node), WRITE_INT_FIELD(node.length)>> \o
         Flatten([i \in 1..Len(node.elems) |->
             IF IsA(node, T_List) THEN <<Walk(node.elems[i])>>
             ELSE IF IsA(node, T_IntList) THEN <<Bytes(LE(node.elems[i], SizeofInt))>>
             ELSE IF IsA(node, T_OidList) THEN <<Bytes(LE(node.elems[i], SizeofOid))>>
             ELSE <<>>])

_outList(node) ==
    IF node = NULL
    THEN <<Bytes(LE(0, SizeofInt16))>>
    ELSE <<WRITE_NODE_TYPE(node), WRITE_INT_FIELD(node.length)>> \o
         Flatten([i \in 1..Len(node.elems) |->
             IF IsA(node, T_List) THEN <<Walk(node.elems[i])>>
             ELSE IF IsA(node, T_IntList) THEN <<Bytes(LE(node.elems[i], SizeofInt))>>
             ELSE IF IsA(node, T_OidList) THEN <<Bytes(LE(node.elems[i], SizeofOid))>>
             ELSE <<>>])

(* variant: the words are written from the last to the first               *)
_outBitmapset_reversed(bms) ==
    LET nwords == IF bms # NULL THEN bms.nwords ELSE 0
    IN  Bytes(LE(nwords, SizeofInt) \o
              Flatten([i \in 1..nwords |-> LE(bms.words[nwords + 1 - i], SizeofBitmapword)]))

_outBitmapset(bms) ==
    LET nwords == IF bms # NULL THEN bms.nwords ELSE 0
    IN  Bytes(LE(nwords, SizeofInt) \o
              Flatten([i \in 1..nwords |-> LE(bms.words[i], SizeofBitmapword)]))
WRITE_BITMAPSET_FIELD(fld) == _outBitmapset(fld)

(* variant: a kind without case is written as its tag alone               *)
_outValue_lenient(value) ==
    <<Bytes(LE(value.type, SizeofInt16))>> \o
    (CASE value.type = T_Integer -> <<Bytes(LE(value.val.ival, SizeofLong))>>
       [] value.type \in {T_Float, T_String, T_BitString} ->
            LET slen == IF value.val.str # NULL THEN strlen(value.val.str) ELSE 0
            IN  <<Bytes(LE(slen, SizeofInt))>> \o
                (IF slen > 0 THEN <<Bytes(SubSeq(value.val.str.chars, 1, slen))>> ELSE <<>>)
       [] value.type = T_Null -> <<>>
       [] OTHER -> <<>>)

_outValue(value) ==
    <<Bytes(LE(value.type, SizeofInt16))>> \o
    (CASE value.type = T_Integer -> <<Bytes(LE(value.val.ival, SizeofLong))>>
       [] value.type \in {T_Float, T_String, T_BitString} ->
            LET slen == IF value.val.str # NULL THEN strlen(value.val.str) ELSE 0
            IN  <<Bytes(LE(slen, SizeofInt))>> \o
                (IF slen > 0 THEN <<Bytes(SubSeq(value.val.str.chars, 1, slen))>> ELSE <<>>)
       [] value.type = T_Null -> <<>>
       [] OTHER -> <<Raise("unrecognized node type")>>)

(* A Datum is a machine word: Datum(v) holds the value v itself,           *)
(* PointerGetDatum(p) the address of a run of bytes p.mem, or NULL.        *)
Datum(v) == [word |-> v]
PointerGetDatum(p) == [ptr |-> p]
DatumGetPointer(value) == value.ptr
PointerIsValid(p) == p # NULL
(* datumGetSize: typlen for a fixed-length type, the whole varlena or the  *)
(* C string with its terminator for typlen -1 and -2                       *)
datumGetSize(value, typbyval, typlen) ==
    IF typbyval THEN typlen
    ELSE IF typlen > 0 THEN typlen
    ELSE Len(DatumGetPointer(value).mem)

(* variant: the bytes of a by-reference value are written without length   *)
_outDatum_noprefix(value, typlen, typbyval) ==
    IF typbyval
    THEN <<Bytes(LE(value.word, SizeofDatum))>>
    ELSE LET s == DatumGetPointer(value)
         IN  IF ~PointerIsValid(s)
             THEN <<Bytes(LE(0, SizeofSize))>>
             ELSE LET length == datumGetSize(value, typbyval, typlen)
                  IN  <<Bytes(SubSeq(s.mem, 1, length))>>

_outDatum(value, typlen, typbyval) ==
    IF typbyval
    THEN <<Bytes(LE(value.word, SizeofDatum))>>
    ELSE LET s == DatumGetPointer(value)
         IN  IF ~PointerIsValid(s)
             THEN <<Bytes(LE(0, SizeofSize))>>
             ELSE LET length == datumGetSize(value, typbyval, typlen)
                  IN  <<Bytes(LE(length, SizeofSize)), Bytes(SubSeq(s.mem, 1, length))>>
WRITE_BYTEA_FIELD(fld) == _outDatum(PointerGetDatum(fld), -1, FALSE)

-----------------------------------------------------------------------------
(* Plan nodes                                                              *)

(* variant of _outPlanInfo: the first block is not under the switch        *)
_outPlanInfo_firstblock(node) ==
    <<WRITE_INT_FIELD(node.plan_node_id),
      WRITE_INT_FIELD(node.plan_parent_node_id),
      WRITE_FLOAT_FIELD(node.startup_cost),
      WRITE_FLOAT_FIELD(node.total_cost),
      WRITE_FLOAT_FIELD(node.plan_rows),
      WRITE_INT_FIELD(node.plan_width),
      WRITE_NODE_FIELD(node.targetlist),
      WRITE_NODE_FIELD(node.qual),
      WRITE_BITMAPSET_FIELD(node.extParam),
      WRITE_BITMAPSET_FIELD(node.allParam),
      WRITE_INT_FIELD(node.nParamExec)>> \o
    (IF print_variable_fields
     THEN <<WRITE_NODE_FIELD(node.flow),
            WRITE_INT_FIELD(node.dispatch),
            WRITE_BOOL_FIELD(node.directDispatch.isDirectDispatch),
            WRITE_NODE_FIELD(node.directDispatch.contentIds),
            WRITE_INT_FIELD(node.nMotionNodes),
            WRITE_INT_FIELD(node.nInitPlans),
            WRITE_NODE_FIELD(node.sliceTable)>>
     ELSE <<>>) \o
    <<WRITE_NODE_FIELD(node.lefttree),
      WRITE_NODE_FIELD(node.righttree),
      WRITE_NODE_FIELD(node.initPlan)>> \o
    (IF print_variable_fields
     THEN <<WRITE_UINT64_FIELD(node.operatorMemKB)>>
     ELSE <<>>)

(* variant: a right child that is also the left child is written once     *)
_outPlanInfo_shared(node) ==
    (IF print_variable_fields
     THEN <<WRITE_INT_FIELD(node.plan_node_id),
            WRITE_INT_FIELD(node.plan_parent_node_id),
            WRITE_FLOAT_FIELD(node.startup_cost),
            WRITE_FLOAT_FIELD(node.total_cost),
            WRITE_FLOAT_FIELD(node.plan_rows),
            WRITE_INT_FIELD(node.plan_width)>>
     ELSE <<>>) \o
    <<WRITE_NODE_FIELD(node.targetlist),
      WRITE_NODE_FIELD(node.qual),
      WRITE_BITMAPSET_FIELD(node.extParam),
      WRITE_BITMAPSET_FIELD(node.allParam),
      WRITE_INT_FIELD(node.nParamExec)>> \o
    (IF print_variable_fields
     THEN <<WRITE_NODE_FIELD(node.flow),
            WRITE_INT_FIELD(node.dispatch),
            WRITE_BOOL_FIELD(node.directDispatch.isDirectDispatch),
            WRITE_NODE_FIELD(node.directDispatch.contentIds),
            WRITE_INT_FIELD(node.nMotionNodes),
            WRITE_INT_FIELD(node.nInitPlans),
            WRITE_NODE_FIELD(node.sliceTable)>>
     ELSE <<>>) \o
    <<WRITE_NODE_FIELD(node.lefttree),
      WRITE_NODE_FIELD(IF node.righttree = node.lefttree THEN NULL ELSE node.righttree),
      WRITE_NODE_FIELD(node.initPlan)>> \o
    (IF print_variable_fields
     THEN <<WRITE_UINT64_FIELD(node.operatorMemKB)>>
     ELSE <<>>)

_outPlanInfo(node) ==
    (IF print_variable_fields
     THEN <<WRITE_INT_FIELD(node.plan_node_id),
            WRITE_INT_FIELD(node.plan_parent_node_id),
            WRITE_FLOAT_FIELD(node.startup_cost),
            WRITE_FLOAT_FIELD(node.total_cost),
            WRITE_FLOAT_FIELD(node.plan_rows),
            WRITE_INT_FIELD(node.plan_width)>>
     ELSE <<>>) \o
    <<WRITE_NODE_FIELD(node.targetlist),
      WRITE_NODE_FIELD(node.qual),
      WRITE_BITMAPSET_FIELD(node.extParam),
      WRITE_BITMAPSET_FIELD(node.allParam),
      WRITE_INT_FIELD(node.nParamExec)>> \o
    (IF print_variable_fields
     THEN <<WRITE_NODE_FIELD(node.flow),
            WRITE_INT_FIELD(node.dispatch),
            WRITE_BOOL_FIELD(node.directDispatch.isDirectDispatch),
            WRITE_NODE_FIELD(node.directDispatch.contentIds),
            WRITE_INT_FIELD(node.nMotionNodes),
            WRITE_INT_FIELD(node.nInitPlans),
            WRITE_NODE_FIELD(node.sliceTable)>>
     ELSE <<>>) \o
    <<WRITE_NODE_FIELD(node.lefttree),
      WRITE_NODE_FIELD(node.righttree),
      WRITE_NODE_FIELD(node.initPlan)>> \o
    (IF print_variable_fields
     THEN <<WRITE_UINT64_FIELD(node.operatorMemKB)>>
     ELSE <<>>)

_outAgg(node) ==
    <<WRITE_NODE_TYPE(node)>> \o
    _outPlanInfo(node) \o
    <<WRITE_ENUM_FIELD(node.aggstrategy),
      WRITE_INT_FIELD(node.numCols),
      WRITE_INT_ARRAY(node.grpColIdx, node.numCols, SizeofAttrNumber)>> \o
    (IF print_variable_fields
     THEN <<WRITE_LONG_FIELD(node.numGroups),
            WRITE_INT_FIELD(node.transSpace)>>
     ELSE <<>>) \o
    <<WRITE_INT_FIELD(node.numNullCols),
      WRITE_UINT64_FIELD(node.inputGrouping),
      WRITE_UINT64_FIELD(node.grouping),
      WRITE_BOOL_FIELD(node.inputHasGrouping),
      WRITE_INT_FIELD(node.rollupGSTimes),
      WRITE_BOOL_FIELD(node.lastAgg),
      WRITE_BOOL_FIELD(node.streaming)>>

(* variant: the column count is written ahead of the base block            *)
_outSort_countfirst(node) ==
    <<WRITE_NODE_TYPE(node),
      WRITE_INT_FIELD(node.numCols)>> \o
    _outPlanInfo(node) \o
    <<      WRITE_INT_ARRAY(node.sortColIdx, node.numCols, SizeofAttrNumber),
      WRITE_OID_ARRAY(node.sortOperators, node.numCols),
      WRITE_NODE_FIELD(node.limitOffset),
      WRITE_NODE_FIELD(node.limitCount),
      WRITE_BOOL_FIELD(node.noduplicates),
      WRITE_ENUM_FIELD(node.share_type),
      WRITE_INT_FIELD(node.share_id),
      WRITE_INT_FIELD(node.driver_slice),
      WRITE_INT_FIELD(node.nsharer),
      WRITE_INT_FIELD(node.nsharer_xslice)>>

_outSort(node) ==
    <<WRITE_NODE_TYPE(node)>> \o
    _outPlanInfo(node) \o
    <<WRITE_INT_FIELD(node.numCols),
      WRITE_INT_ARRAY(node.sortColIdx, node.numCols, SizeofAttrNumber),
      WRITE_OID_ARRAY(node.sortOperators, node.numCols),
      WRITE_NODE_FIELD(node.limitOffset),
      WRITE_NODE_FIELD(node.limitCount),
      WRITE_BOOL_FIELD(node.noduplicates),
      WRITE_ENUM_FIELD(node.share_type),
      WRITE_INT_FIELD(node.share_id),
      WRITE_INT_FIELD(node.driver_slice),
      WRITE_INT_FIELD(node.nsharer),
      WRITE_INT_FIELD(node.nsharer_xslice)>>

_outMotion(node) ==
    <<WRITE_NODE_TYPE(node),
      WRITE_INT_FIELD(node.motionID),
      WRITE_ENUM_FIELD(node.motionType),
      WRITE_BOOL_FIELD(node.sendSorted),
      WRITE_NODE_FIELD(node.hashExpr),
      WRITE_NODE_FIELD(node.hashDataTypes),
      WRITE_INT_FIELD(node.numOutputSegs),
      WRITE_INT_ARRAY(node.outputSegIdx, node.numOutputSegs, SizeofInt),
      WRITE_INT_FIELD(node.numSortCols),
      WRITE_INT_ARRAY(node.sortColIdx, node.numSortCols, SizeofAttrNumber),
      WRITE_OID_ARRAY(node.sortOperators, node.numSortCols),
      WRITE_INT_FIELD(node.segidColIdx)>> \o
    _outPlanInfo(node)

_outFlow(node) ==
    <<WRITE_NODE_TYPE(node),
      WRITE_ENUM_FIELD(node.flotype),
      WRITE_ENUM_FIELD(node.req_move),
      WRITE_ENUM_FIELD(node.locustype),
      WRITE_INT_FIELD(node.segindex),
      WRITE_INT_FIELD(node.numSortCols),
      WRITE_INT_ARRAY(node.sortColIdx, node.numSortCols, SizeofAttrNumber),
      WRITE_OID_ARRAY(node.sortOperators, node.numSortCols),
      WRITE_NODE_FIELD(node.hashExpr),
      WRITE_NODE_FIELD(node.flow_before_req_move)>>

(* variant: the slice bookkeeping of the statement is written in full     *)
(* mode only                                                               *)
_outPlannedStmt_guarded(node) ==
    <<WRITE_NODE_TYPE(node),
      WRITE_ENUM_FIELD(node.commandType),
      WRITE_ENUM_FIELD(node.planGen),
      WRITE_BOOL_FIELD(node.canSetTag),
      WRITE_BOOL_FIELD(node.transientPlan),
      WRITE_NODE_FIELD(node.planTree),
      WRITE_NODE_FIELD(node.rtable),
      WRITE_NODE_FIELD(node.resultRelations),
      WRITE_NODE_FIELD(node.utilityStmt),
      WRITE_NODE_FIELD(node.intoClause),
      WRITE_NODE_FIELD(node.subplans),
      WRITE_NODE_FIELD(node.rewindPlanIDs),
      WRITE_NODE_FIELD(node.returningLists),
      WRITE_NODE_FIELD(node.result_partitions),
      WRITE_NODE_FIELD(node.result_aosegnos),
      WRITE_NODE_FIELD(node.queryPartOids),
      WRITE_NODE_FIELD(node.queryPartsMetadata),
      WRITE_NODE_FIELD(node.numSelectorsPerScanId),
      WRITE_NODE_FIELD(node.rowMarks),
      WRITE_NODE_FIELD(node.relationOids),
      WRITE_NODE_FIELD(node.invalItems),
      WRITE_INT_FIELD(node.nCrossLevelParams)>> \o
    (IF print_variable_fields
     THEN <<WRITE_INT_FIELD(node.nMotionNodes),
            WRITE_INT_FIELD(node.nInitPlans),
            WRITE_NODE_FIELD(node.sliceTable)>>
     ELSE <<>>) \o
    <<WRITE_UINT64_FIELD(node.query_mem),
      WRITE_NODE_FIELD(node.transientTypeRecords)>>

_outPlannedStmt(node) ==
    <<WRITE_NODE_TYPE(node),
      WRITE_ENUM_FIELD(node.commandType),
      WRITE_ENUM_FIELD(node.planGen),
      WRITE_BOOL_FIELD(node.canSetTag),
      WRITE_BOOL_FIELD(node.transientPlan),
      WRITE_NODE_FIELD(node.planTree),
      WRITE_NODE_FIELD(node.rtable),
      WRITE_NODE_FIELD(node.resultRelations),
      WRITE_NODE_FIELD(node.utilityStmt),
      WRITE_NODE_FIELD(node.intoClause),
      WRITE_NODE_FIELD(node.subplans),
      WRITE_NODE_FIELD(node.rewindPlanIDs),
      WRITE_NODE_FIELD(node.returningLists),
      WRITE_NODE_FIELD(node.result_partitions),
      WRITE_NODE_FIELD(node.result_aosegnos),
      WRITE_NODE_FIELD(node.queryPartOids),
      WRITE_NODE_FIELD(node.queryPartsMetadata),
      WRITE_NODE_FIELD(node.numSelectorsPerScanId),
      WRITE_NODE_FIELD(node.rowMarks),
      WRITE_NODE_FIELD(node.relationOids),
      WRITE_NODE_FIELD(node.invalItems),
      WRITE_INT_FIELD(node.nCrossLevelParams),
      WRITE_INT_FIELD(node.nMotionNodes),
      WRITE_INT_FIELD(node.nInitPlans),
      WRITE_NODE_FIELD(node.sliceTable),
      WRITE_UINT64_FIELD(node.query_mem),
      WRITE_NODE_FIELD(node.transientTypeRecords)>>

-----------------------------------------------------------------------------
(* Expression and statement nodes                                          *)

(* variant: the value is written whether or not the constant is null      *)
_outConst_always(node) ==
    <<WRITE_NODE_TYPE(node),
      WRITE_OID_FIELD(node.consttype),
      WRITE_INT_FIELD(node.constlen),
      WRITE_BOOL_FIELD(node.constbyval),
      WRITE_BOOL_FIELD(node.constisnull)>> \o
    _outDatum(node.constvalue, node.constlen, node.constbyval)

_outConst(node) ==
    <<WRITE_NODE_TYPE(node),
      WRITE_OID_FIELD(node.consttype),
      WRITE_INT_FIELD(node.constlen),
      WRITE_BOOL_FIELD(node.constbyval),
      WRITE_BOOL_FIELD(node.constisnull)>> \o
    (IF ~node.constisnull
     THEN _outDatum(node.constvalue, node.constlen, node.constbyval)
     ELSE <<>>)

_outRangeTblEntry(node) ==
    <<WRITE_NODE_TYPE(node),
      WRITE_NODE_FIELD(node.alias),
      WRITE_NODE_FIELD(node.eref),
      WRITE_ENUM_FIELD(node.rtekind)>> \o
    (CASE node.rtekind \in {RTE_RELATION, RTE_SPECIAL} ->
            <<WRITE_OID_FIELD(node.relid)>>
       [] node.rtekind = RTE_SUBQUERY ->
            <<WRITE_NODE_FIELD(node.subquery)>>
       [] node.rtekind = RTE_CTE ->
            <<WRITE_STRING_FIELD(node.ctename),
              WRITE_INT_FIELD(node.ctelevelsup),
              WRITE_BOOL_FIELD(node.self_reference),
              WRITE_NODE_FIELD(node.ctecoltypes),
              WRITE_NODE_FIELD(node.ctecoltypmods)>>
       [] node.rtekind = RTE_FUNCTION ->
            <<WRITE_NODE_FIELD(node.funcexpr),
              WRITE_NODE_FIELD(node.funccoltypes),
              WRITE_NODE_FIELD(node.funccoltypmods)>>
       [] node.rtekind = RTE_TABLEFUNCTION ->
            <<WRITE_NODE_FIELD(node.subquery),
              WRITE_NODE_FIELD(node.funcexpr),
              WRITE_NODE_FIELD(node.funccoltypes),
              WRITE_NODE_FIELD(node.funccoltypmods)>> \o
            WRITE_BYTEA_FIELD(node.funcuserdata)
       [] node.rtekind = RTE_VALUES ->
            <<WRITE_NODE_FIELD(node.values_lists)>>
       [] node.rtekind = RTE_JOIN ->
            <<WRITE_ENUM_FIELD(node.jointype),
              WRITE_NODE_FIELD(node.joinaliasvars)>>
       [] node.rtekind = RTE_VOID -> <<>>
       [] OTHER -> <<Raise("unrecognized RTE kind")>>) \o
    <<WRITE_BOOL_FIELD(node.inh),
      WRITE_BOOL_FIELD(node.inFromCl),
      WRITE_UINT_FIELD(node.requiredPerms),
      WRITE_OID_FIELD(node.checkAsUser),
      WRITE_BOOL_FIELD(node.forceDistRandom)>>

(* variant: an A_Expr kind without case raises                             *)
_outAExpr_fatal(node) ==
    <<WRITE_NODE_TYPE(node),
      WRITE_ENUM_FIELD(node.kind)>> \o
    (CASE node.kind = AEXPR_OP -> <<WRITE_NODE_FIELD(node.name)>>
       [] node.kind = AEXPR_AND -> <<>>
       [] node.kind = AEXPR_OR -> <<>>
       [] node.kind = AEXPR_NOT -> <<>>
       [] node.kind = AEXPR_OP_ANY -> <<WRITE_NODE_FIELD(node.name)>>
       [] node.kind = AEXPR_OP_ALL -> <<WRITE_NODE_FIELD(node.name)>>
       [] node.kind = AEXPR_DISTINCT -> <<WRITE_NODE_FIELD(node.name)>>
       [] node.kind = AEXPR_NULLIF -> <<WRITE_NODE_FIELD(node.name)>>
       [] node.kind = AEXPR_OF -> <<WRITE_NODE_FIELD(node.name)>>
       [] node.kind = AEXPR_IN -> <<WRITE_NODE_FIELD(node.name)>>
       [] OTHER -> <<Raise("unrecognized A_Expr kind")>>) \o
    <<WRITE_NODE_FIELD(node.lexpr),
      WRITE_NODE_FIELD(node.rexpr),
      WRITE_INT_FIELD(node.location)>>

_outAExpr(node) ==
    <<WRITE_NODE_TYPE(node),
      WRITE_ENUM_FIELD(node.kind)>> \o
    (CASE node.kind = AEXPR_OP -> <<WRITE_NODE_FIELD(node.name)>>
       [] node.kind = AEXPR_AND -> <<>>
       [] node.kind = AEXPR_OR -> <<>>
       [] node.kind = AEXPR_NOT -> <<>>
       [] node.kind = AEXPR_OP_ANY -> <<WRITE_NODE_FIELD(node.name)>>
       [] node.kind = AEXPR_OP_ALL -> <<WRITE_NODE_FIELD(node.name)>>
       [] node.kind = AEXPR_DISTINCT -> <<WRITE_NODE_FIELD(node.name)>>
       [] node.kind = AEXPR_NULLIF -> <<WRITE_NODE_FIELD(node.name)>>
       [] node.kind = AEXPR_OF -> <<WRITE_NODE_FIELD(node.name)>>
       [] node.kind = AEXPR_IN -> <<WRITE_NODE_FIELD(node.name)>>
       [] OTHER -> <<>>) \o
    <<WRITE_NODE_FIELD(node.lexpr),
      WRITE_NODE_FIELD(node.rexpr),
      WRITE_INT_FIELD(node.location)>>

_outAConst(node) ==
    <<WRITE_NODE_TYPE(node)>> \o
    _outValue(node.val) \o
    <<WRITE_NODE_FIELD(node.typname),
      WRITE_INT_FIELD(node.location)>>

(* variant: a constraint type without case raises                          *)
_outConstraint_fatal(node) ==
    <<WRITE_NODE_TYPE(node),
      WRITE_STRING_FIELD(node.name),
      WRITE_OID_FIELD(node.conoid),
      WRITE_ENUM_FIELD(node.contype)>> \o
    (CASE node.contype \in {CONSTR_PRIMARY, CONSTR_UNIQUE} ->
            <<WRITE_NODE_FIELD(node.keys),
              WRITE_NODE_FIELD(node.options),
              WRITE_STRING_FIELD(node.indexspace)>>
       [] node.contype \in {CONSTR_CHECK, CONSTR_DEFAULT} ->
            <<WRITE_NODE_FIELD(node.raw_expr),
              WRITE_STRING_FIELD(node.cooked_expr)>>
       [] node.contype \in {CONSTR_NOTNULL, CONSTR_NULL, CONSTR_ATTR_DEFERRABLE,
                            CONSTR_ATTR_NOT_DEFERRABLE, CONSTR_ATTR_DEFERRED,
                            CONSTR_ATTR_IMMEDIATE} -> <<>>
       [] OTHER ->
            <<Raise("serialization doesn't know what to do with this constraint")>>)

_outConstraint(node) ==
    <<WRITE_NODE_TYPE(node),
      WRITE_STRING_FIELD(node.name),
      WRITE_OID_FIELD(node.conoid),
      WRITE_ENUM_FIELD(node.contype)>> \o
    (CASE node.contype \in {CONSTR_PRIMARY, CONSTR_UNIQUE} ->
            <<WRITE_NODE_FIELD(node.keys),
              WRITE_NODE_FIELD(node.options),
              WRITE_STRING_FIELD(node.indexspace)>>
       [] node.contype \in {CONSTR_CHECK, CONSTR_DEFAULT} ->
            <<WRITE_NODE_FIELD(node.raw_expr),
              WRITE_STRING_FIELD(node.cooked_expr)>>
       [] node.contype \in {CONSTR_NOTNULL, CONSTR_NULL, CONSTR_ATTR_DEFERRABLE,
                            CONSTR_ATTR_NOT_DEFERRABLE, CONSTR_ATTR_DEFERRED,
                            CONSTR_ATTR_IMMEDIATE} -> <<>>
       [] OTHER ->
            <<Warn("serialization doesn't know what to do with this constraint")>>)

-----------------------------------------------------------------------------
(* The tree walker.  str.err is set once elog(ERROR) has left the encode   *)
(* by a non-local exit; nothing is executed after it.  str.walked counts   *)
(* the invocations of _outNode, str.paths lists the branch each took.      *)

(* switch (nodeTag(obj)) of _outNode: the encoder of a registered tag, or  *)
(* the default branch.                                                     *)
(* variant: an unrecognized tag is skipped instead of raised               *)
Dispatch_skip(obj) ==
    CASE nodeTag(obj) = T_PlannedStmt -> _outPlannedStmt(obj)
      [] nodeTag(obj) = T_Agg -> _outAgg(obj)
      [] nodeTag(obj) = T_Sort -> _outSort(obj)
      [] nodeTag(obj) = T_Motion -> _outMotion(obj)
      [] nodeTag(obj) = T_Const -> _outConst(obj)
      [] nodeTag(obj) = T_Flow -> _outFlow(obj)
      [] nodeTag(obj) = T_RangeTblEntry -> _outRangeTblEntry(obj)
      [] nodeTag(obj) = T_A_Expr -> _outAExpr(obj)
      [] nodeTag(obj) = T_A_Const -> _outAConst(obj)
      [] nodeTag(obj) = T_Constraint -> _outConstraint(obj)
      [] OTHER -> <<>>

Dispatch(obj) ==
    CASE nodeTag(obj) = T_PlannedStmt -> _outPlannedStmt(obj)
      [] nodeTag(obj) = T_Agg -> _outAgg(obj)
      [] nodeTag(obj) = T_Sort -> _outSort(obj)
      [] nodeTag(obj) = T_Motion -> _outMotion(obj)
      [] nodeTag(obj) = T_Const -> _outConst(obj)
      [] nodeTag(obj) = T_Flow -> _outFlow(obj)
      [] nodeTag(obj) = T_RangeTblEntry -> _outRangeTblEntry(obj)
      [] nodeTag(obj) = T_A_Expr -> _outAExpr(obj)
      [] nodeTag(obj) = T_A_Const -> _outAConst(obj)
      [] nodeTag(obj) = T_Constraint -> _outConstraint(obj)
      [] OTHER -> <<Raise("could not serialize unrecognized node type")>>

RECURSIVE _outNode(_, _), Run(_, _)
(* variant: the test for a literal is missing, literals go to the switch   *)
_outNode_noliterals(str, obj) ==
    LET s == [str EXCEPT !.walked = @ + 1]
        took(path) == [s EXCEPT !.paths = Append(@, path)]
    IN  IF obj = NULL
        THEN appendBinaryStringInfo(took("null"), LE(0, SizeofInt16))
        ELSE IF IsA(obj, T_List) \/ IsA(obj, T_IntList) \/ IsA(obj, T_OidList)
        THEN Run(took("_outList"), _outList(obj))
        ELSE Run(took("switch"), Dispatch(obj))

_outNode(str, obj) ==
    LET s == [str EXCEPT !.walked = @ + 1]
        took(path) == [s EXCEPT !.paths = Append(@, path)]
    IN  IF obj = NULL
        THEN appendBinaryStringInfo(took("null"), LE(0, SizeofInt16))
        ELSE IF IsA(obj, T_List) \/ IsA(obj, T_IntList) \/ IsA(obj, T_OidList)
        THEN Run(took("_outList"), _outList(obj))
        ELSE IF IsA(obj, T_Integer) \/ IsA(obj, T_Float) \/ IsA(obj, T_String)
                \/ IsA(obj, T_Null) \/ IsA(obj, T_BitString)
        THEN Run(took("_outValue"), _outValue(obj))
        ELSE Run(took("switch"), Dispatch(obj))

Run(str, steps) ==
    IF steps = <<>> \/ str.err
    THEN str
    ELSE LET st == Head(steps)
             s1 == CASE st.k = "bytes" -> appendBinaryStringInfo(str, st.b)
                     [] st.k = "node" -> _outNode(str, st.obj)
                     [] st.k = "error" -> [str EXCEPT !.err = TRUE, !.errmsg = st.msg]
                     [] st.k = "warning" -> [str EXCEPT !.warned = TRUE]
         IN  Run(s1, Tail(steps))

-----------------------------------------------------------------------------
(* Entry points                                                            *)

(* variant: the buffer still holds what the call before left in it        *)
initStringInfoOfSize_stale ==
    [data |-> ret.data, len |-> Len(ret.data), err |-> FALSE, errmsg |-> "",
     warned |-> FALSE, walked |-> 0, paths |-> <<>>]

initStringInfoOfSize ==
    [data |-> <<>>, len |-> 0, err |-> FALSE, errmsg |-> "", warned |-> FALSE, walked |-> 0,
     paths |-> <<>>]

(* variant: the sentinel is the value of a literal tag                     *)
Sentinel_collides == T_Null

(* (int16) 0xDEAD                                                          *)
Sentinel == 57005 - 65536

(* What the caller holds after a call: the buffer and *length when the     *)
(* call returned, neither when elog(ERROR) unwound past it.                *)
Delivered(via, obj, str) ==
    IF str.err
    THEN [via |-> via, obj |-> obj, returned |-> FALSE, data |-> <<>>, length |-> -1,
          error |-> str.errmsg, pvf |-> print_variable_fields, rt |-> range_table,
          walked |-> str.walked, warned |-> str.warned, paths |-> str.paths]
    ELSE [via |-> via, obj |-> obj, returned |-> TRUE, data |-> str.data, length |-> str.len,
          error |-> "", pvf |-> print_variable_fields, rt |-> range_table,
          walked |-> str.walked, warned |-> str.warned, paths |-> str.paths]

(* variants of nodeToBinaryStringFast with a slip in the last statements   *)
nodeToBinaryStringFast_lenfirst(obj) ==
    LET tg == Sentinel
        str0 == initStringInfoOfSize
        str1 == _outNode(str0, obj)
        str2 == [str1 EXCEPT !.data = @ \o LE(tg, SizeofInt16)]
    IN  Delivered("nodeToBinaryStringFast", obj, IF str1.err THEN str1 ELSE str2)

nodeToBinaryStringFast_nosentinel(obj) ==
    LET str0 == initStringInfoOfSize
        str1 == _outNode(str0, obj)
    IN  Delivered("nodeToBinaryStringFast", obj, str1)

nodeToBinaryStringFast(obj) ==
    LET tg == Sentinel
        str0 == initStringInfoOfSize
        str1 == _outNode(str0, obj)
        str2 == appendBinaryStringInfo(str1, LE(tg, SizeofInt16))
    IN  Delivered("nodeToBinaryStringFast", obj, IF str1.err THEN str1 ELSE str2)

(* variant: the second Assert is missing                                   *)
outfast_workfile_mgr_init_oneguard(rtable) ==
    /\ failed_assertion = "none"
    /\ last_call' = "outfast_workfile_mgr_init"
    /\ at_entry' = [pvf |-> print_variable_fields, rt |-> range_table, opened |-> opened]
    /\ IF ~(NULL = range_table)
       THEN /\ failed_assertion' = "NULL == range_table"
            /\ UNCHANGED <<print_variable_fields, range_table, opened>>
       ELSE /\ range_table' = rtable
            /\ print_variable_fields' = FALSE
            /\ opened' = TRUE
            /\ UNCHANGED failed_assertion
    /\ UNCHANGED <<ret, prev, call>>

(* variant: the table is set and the switch is left as it is               *)
outfast_workfile_mgr_init_keepswitch(rtable) ==
    /\ failed_assertion = "none"
    /\ last_call' = "outfast_workfile_mgr_init"
    /\ at_entry' = [pvf |-> print_variable_fields, rt |-> range_table, opened |-> opened]
    /\ IF ~(NULL = range_table)
       THEN /\ failed_assertion' = "NULL == range_table"
            /\ UNCHANGED <<print_variable_fields, range_table, opened>>
       ELSE IF ~print_variable_fields
       THEN /\ failed_assertion' = "print_variable_fields"
            /\ UNCHANGED <<print_variable_fields, range_table, opened>>
       ELSE /\ range_table' = rtable
            /\ opened' = TRUE
            /\ UNCHANGED <<print_variable_fields, failed_assertion>>
    /\ UNCHANGED <<ret, prev, call>>

outfast_workfile_mgr_init(rtable) ==
    /\ failed_assertion = "none"
    /\ last_call' = "outfast_workfile_mgr_init"
    /\ at_entry' = [pvf |-> print_variable_fields, rt |-> range_table, opened |-> opened]
    /\ IF ~(NULL = range_table)
       THEN /\ failed_assertion' = "NULL == range_table"
            /\ UNCHANGED <<print_variable_fields, range_table, opened>>
       ELSE IF ~print_variable_fields
       THEN /\ failed_assertion' = "print_variable_fields"
            /\ UNCHANGED <<print_variable_fields, range_table, opened>>
       ELSE /\ range_table' = rtable
            /\ print_variable_fields' = FALSE
            /\ opened' = TRUE
            /\ UNCHANGED failed_assertion
    /\ UNCHANGED <<ret, prev, call>>

(* variant: the reference table is left set                                *)
outfast_workfile_mgr_end_keeptable ==
    /\ failed_assertion = "none"
    /\ last_call' = "outfast_workfile_mgr_end"
    /\ at_entry' = [pvf |-> print_variable_fields, rt |-> range_table, opened |-> opened]
    /\ IF ~(~print_variable_fields)
       THEN /\ failed_assertion' = "!print_variable_fields"
            /\ UNCHANGED <<print_variable_fields, range_table, opened>>
       ELSE /\ print_variable_fields' = TRUE
            /\ opened' = FALSE
            /\ UNCHANGED <<range_table, failed_assertion>>
    /\ UNCHANGED <<ret, prev, call>>

(* variant: the Assert is missing                                          *)
outfast_workfile_mgr_end_noguard ==
    /\ failed_assertion = "none"
    /\ last_call' = "outfast_workfile_mgr_end"
    /\ at_entry' = [pvf |-> print_variable_fields, rt |-> range_table, opened |-> opened]
    /\ print_variable_fields' = TRUE
    /\ range_table' = NULL
    /\ opened' = FALSE
    /\ UNCHANGED failed_assertion
    /\ UNCHANGED <<ret, prev, call>>

outfast_workfile_mgr_end ==
    /\ failed_assertion = "none"
    /\ last_call' = "outfast_workfile_mgr_end"
    /\ at_entry' = [pvf |-> print_variable_fields, rt |-> range_table, opened |-> opened]
    /\ IF ~(~print_variable_fields)
       THEN /\ failed_assertion' = "!print_variable_fields"
            /\ UNCHANGED <<print_variable_fields, range_table, opened>>
       ELSE /\ print_variable_fields' = TRUE
            /\ range_table' = NULL
            /\ opened' = FALSE
            /\ UNCHANGED failed_assertion
    /\ UNCHANGED <<ret, prev, call>>

-----------------------------------------------------------------------------
(* Trees handed to the encoder                                             *)

makeInteger(i) == [type |-> T_Integer, val |-> [ival |-> i]]
makeString(s) == [type |-> T_String, val |-> [str |-> s]]
(* a List always has at least one cell: the empty list is NIL = NULL       *)
list_make(tag, elems) == [type |-> tag, length |-> Len(elems), elems |-> elems]
(* a node whose tag has no case in the switch of _outNode                  *)
Unregistered == [type |-> T_IndexInfo]

SeqsUpTo(S, n) == UNION {[1..k -> S] : k \in 1..n}

(* 0.0 and 1.0 as IEEE-754 doubles in memory                               *)
Cost0 == <<0, 0, 0, 0, 0, 0, 0, 0>>
Cost1 == <<0, 0, 0, 0, 0, 0, 240, 63>>

PlanFields ==
    [plan_node_id |-> 1, plan_parent_node_id |-> 0,
     startup_cost |-> Cost0, total_cost |-> Cost1, plan_rows |-> Cost1, plan_width |-> 8,
     targetlist |-> NULL, qual |-> NULL,
     extParam |-> NULL, allParam |-> [nwords |-> 1, words |-> <<5>>],
     nParamExec |-> 0,
     flow |-> NULL, dispatch |-> 0,
     directDispatch |-> [isDirectDispatch |-> FALSE, contentIds |-> NULL],
     nMotionNodes |-> 0, nInitPlans |-> 0, sliceTable |-> NULL,
     lefttree |-> NULL, righttree |-> NULL, initPlan |-> NULL,
     operatorMemKB |-> 100]

makeFlow ==
    [type |-> T_Flow, flotype |-> 1, req_move |-> 0, locustype |-> 2, segindex |-> -1,
     numSortCols |-> 0, sortColIdx |-> <<>>, sortOperators |-> <<>>,
     hashExpr |-> NULL, flow_before_req_move |-> NULL]

makeAgg ==
    [type |-> T_Agg] @@ PlanFields @@
    [aggstrategy |-> 2, numCols |-> 1, grpColIdx |-> <<1>>,
     numGroups |-> 10, transSpace |-> 0, numNullCols |-> 0,
     inputGrouping |-> 0, grouping |-> 0, inputHasGrouping |-> FALSE,
     rollupGSTimes |-> 0, lastAgg |-> FALSE, streaming |-> FALSE]

makeSort ==
    [type |-> T_Sort] @@ PlanFields @@
    [numCols |-> 1, sortColIdx |-> <<2>>, sortOperators |-> <<97>>,
     limitOffset |-> NULL, limitCount |-> NULL, noduplicates |-> FALSE,
     share_type |-> 0, share_id |-> 0, driver_slice |-> -1,
     nsharer |-> 0, nsharer_xslice |-> 0]

makeMotion ==
    [type |-> T_Motion] @@ PlanFields @@
    [motionID |-> 1, motionType |-> 0, sendSorted |-> FALSE,
     hashExpr |-> NULL, hashDataTypes |-> NULL,
     numOutputSegs |-> 0, outputSegIdx |-> <<>>,
     numSortCols |-> 0, sortColIdx |-> <<>>, sortOperators |-> <<>>,
     segidColIdx |-> 0]

IntVals == {-2, 3}
OidVals == {23, 16384}
Leaves == {NULL, makeInteger(5), makeString(CString(<<97, 98>>)), Unregistered}
Inner == {NULL, list_make(T_List, <<NULL, Unregistered>>), list_make(T_IntList, <<3>>),
          makeSort}
Lists ==
    {list_make(T_List, e) : e \in SeqsUpTo(Leaves, MaxListLen)} \cup
    {list_make(T_List, e) : e \in SeqsUpTo(Inner, MaxListLen)} \cup
    {list_make(T_IntList, e) : e \in SeqsUpTo(IntVals, MaxListLen)} \cup
    {list_make(T_OidList, e) : e \in SeqsUpTo(OidVals, MaxListLen)}
Plans ==
    {[p EXCEPT !.lefttree = c] :
        p \in {makeAgg, makeSort, makeMotion},
        c \in {NULL, [makeSort EXCEPT !.plan_node_id = 2], Unregistered}} \cup
    {[p EXCEPT !.lefttree = c, !.righttree = c] :
        p \in {makeAgg, makeMotion}, c \in {[makeSort EXCEPT !.plan_node_id = 2]}} \cup
    {[makeAgg EXCEPT !.flow = makeFlow],
     [makeSort EXCEPT !.flow = Unregistered],
     [makeMotion EXCEPT !.targetlist = list_make(T_List, <<makeInteger(5), NULL>>)]}
Objs == Leaves \cup Lists \cup Plans

(* containers handed to _outList itself                                    *)
Containers == {NULL} \cup Lists

(* plan trees that differ from one another in single fields                *)
HistObjs ==
    {makeAgg,
     [makeAgg EXCEPT !.plan_node_id = 2],
     [makeAgg EXCEPT !.startup_cost = Cost1],
     [makeAgg EXCEPT !.plan_width = 16],
     [makeAgg EXCEPT !.numGroups = 20],
     [makeAgg EXCEPT !.lefttree = [makeSort EXCEPT !.plan_node_id = 3]],
     [makeAgg EXCEPT !.lefttree = [makeSort EXCEPT !.plan_node_id = 4]],
     makeSort,
     [makeSort EXCEPT !.plan_parent_node_id = 7],
     [makeSort EXCEPT !.total_cost = Cost0],
     [makeSort EXCEPT !.driver_slice = 1],
     makeMotion,
     [makeMotion EXCEPT !.plan_node_id = 2],
     [makeMotion EXCEPT !.plan_rows = Cost0],
     [makeMotion EXCEPT !.motionID = 2],
     NULL,
     list_make(T_List, <<makeSort, Unregistered>>)}

makeFloat(s) == [type |-> T_Float, val |-> [str |-> s]]
makeBitString(s) == [type |-> T_BitString, val |-> [str |-> s]]
makeNull == [type |-> T_Null]

makeConst(typlen, typbyval, isnull, value) ==
    [type |-> T_Const, consttype |-> 23, constlen |-> typlen, constbyval |-> typbyval,
     constisnull |-> isnull, constvalue |-> value]

makePlannedStmt ==
    [type |-> T_PlannedStmt, commandType |-> 1, planGen |-> 0, canSetTag |-> TRUE,
     transientPlan |-> FALSE, planTree |-> NULL, rtable |-> NULL,
     resultRelations |-> NULL, utilityStmt |-> NULL, intoClause |-> NULL,
     subplans |-> NULL, rewindPlanIDs |-> NULL, returningLists |-> NULL,
     result_partitions |-> NULL, result_aosegnos |-> NULL, queryPartOids |-> NULL,
     queryPartsMetadata |-> NULL, numSelectorsPerScanId |-> NULL, rowMarks |-> NULL,
     relationOids |-> NULL, invalItems |-> NULL, nCrossLevelParams |-> 0,
     nMotionNodes |-> 1, nInitPlans |-> 0, sliceTable |-> NULL, query_mem |-> 4096,
     transientTypeRecords |-> NULL]

makeRangeTblEntry(kind) ==
    [type |-> T_RangeTblEntry, alias |-> NULL, eref |-> NULL, rtekind |-> kind,
     relid |-> 16384, subquery |-> NULL, ctename |-> CString(<<99>>), ctelevelsup |-> 1,
     self_reference |-> FALSE, ctecoltypes |-> NULL, ctecoltypmods |-> NULL,
     funcexpr |-> NULL, funccoltypes |-> NULL, funccoltypmods |-> NULL,
     funcuserdata |-> NULL, values_lists |-> NULL, jointype |-> 1,
     joinaliasvars |-> NULL, inh |-> TRUE, inFromCl |-> TRUE, requiredPerms |-> 2,
     checkAsUser |-> 10, forceDistRandom |-> FALSE]

makeA_Expr(kind) ==
    [type |-> T_A_Expr, kind |-> kind, name |-> list_make(T_List, <<makeString(CString(<<61>>))>>),
     lexpr |-> makeInteger(1), rexpr |-> NULL, location |-> 7]

makeA_Const(val) ==
    [type |-> T_A_Const, val |-> val, typname |-> NULL, location |-> -1]

makeConstraint(contype, name) ==
    [type |-> T_Constraint, name |-> name, conoid |-> 16384, contype |-> contype,
     keys |-> list_make(T_List, <<makeString(CString(<<105>>))>>), options |-> NULL,
     indexspace |-> NULL, raw_expr |-> makeInteger(1), cooked_expr |-> CString(<<>>)]

(* character strings: none, empty, and of one and two characters           *)
Strs == {NULL, CString(<<>>), CString(<<99>>), CString(<<97, 98>>)}
(* enumerators of each sum type, and one value past the last of them       *)
RTEKinds == RTE_RELATION .. (RTE_TABLEFUNCTION + 1)
AExprKinds == AEXPR_OP .. (AEXPR_IN + 1)
ConstrTypes == CONSTR_NULL .. (CONSTR_ATTR_IMMEDIATE + 1)

Consts ==
    {makeConst(4, TRUE, n, Datum(v)) : n \in BOOLEAN, v \in {0, 258, -1}} \cup
    {makeConst(l, FALSE, n, PointerGetDatum(p)) :
        l \in {-1, 2}, n \in BOOLEAN, p \in {NULL, [mem |-> <<12, 0, 7>>]}}

ExprLeaves ==
    {NULL, makeNull, makeInteger(-2), Unregistered} \cup
    {makeString(s) : s \in Strs} \cup
    {makeFloat(CString(<<49, 46, 53>>)), makeBitString(CString(<<98, 49>>))} \cup
    Consts \cup
    {makeRangeTblEntry(k) : k \in RTEKinds} \cup
    {[makeRangeTblEntry(RTE_TABLEFUNCTION) EXCEPT !.funcuserdata = [mem |-> <<9, 8>>]],
     [makeRangeTblEntry(RTE_CTE) EXCEPT !.ctename = NULL]} \cup
    {makeA_Expr(k) : k \in AExprKinds} \cup
    {makeA_Const(v) : v \in {makeInteger(3), makeString(CString(<<120>>)), makeNull,
                             makeFloat(NULL), makeBitString(CString(<<98, 49>>)),
                             Unregistered, [type |-> T_List]}} \cup
    {makeConstraint(c, n) : c \in ConstrTypes, n \in {NULL, CString(<<99, 107>>)}} \cup
    {makeConstraint(CONSTR_NOTNULL, CString(<<>>)),
     [makeConstraint(CONSTR_PRIMARY, NULL) EXCEPT !.indexspace = CString(<<116, 115>>)],
     [makeConstraint(CONSTR_CHECK, NULL) EXCEPT !.cooked_expr = NULL]}

ExprTrees ==
    {makePlannedStmt,
     [makePlannedStmt EXCEPT !.rtable = list_make(T_List, <<makeRangeTblEntry(RTE_RELATION)>>),
                             !.relationOids = list_make(T_OidList, <<16384>>)],
     [makePlannedStmt EXCEPT !.rtable = list_make(T_List, <<makeRangeTblEntry(RTE_TABLEFUNCTION + 1)>>)],
     [makePlannedStmt EXCEPT !.utilityStmt = makeConstraint(CONSTR_FOREIGN, CString(<<102>>))],
     [makePlannedStmt EXCEPT !.planTree = makeSort],
     makeFlow, makeAgg, makeSort, makeMotion,
     list_make(T_List, <<makeConstraint(CONSTR_FOREIGN, CString(<<102>>)), makeInteger(4)>>),
     list_make(T_List, <<makeA_Expr(AEXPR_IN + 1), makeString(CString(<<122>>))>>),
     list_make(T_List, <<makeRangeTblEntry(RTE_TABLEFUNCTION + 1), makeInteger(4)>>),
     list_make(T_List, <<makeConst(-1, FALSE, FALSE, PointerGetDatum([mem |-> <<12, 0, 7>>])), NULL>>),
     list_make(T_IntList, <<3, -2>>),
     [makeA_Expr(AEXPR_AND) EXCEPT !.lexpr = makeA_Expr(AEXPR_OP), !.rexpr = makeConst(4, TRUE, FALSE, Datum(258))],
     [makeConstraint(CONSTR_DEFAULT, CString(<<100>>)) EXCEPT !.raw_expr = makeA_Const(makeString(CString(<<120>>)))]}

ExprObjs == ExprLeaves \cup ExprTrees

(* bitmapword values and the sets handed to _outBitmapset itself           *)
WordVals == {0, 5, 65537}
Bitmapsets ==
    {NULL} \cup {[nwords |-> Len(w), words |-> w] : w \in SeqsUpTo(WordVals, MaxWords)}

(* trees encoded statement by statement                                    *)
StepObjs ==
    {NULL, makeInteger(-2), makeString(CString(<<97, 98>>)), Unregistered,
     list_make(T_List, <<makeInteger(5), NULL>>),
     list_make(T_List, <<list_make(T_IntList, <<3>>), makeString(NULL)>>),
     list_make(T_List, <<NULL, Unregistered>>),
     list_make(T_List, <<makeConstraint(CONSTR_FOREIGN, CString(<<102>>)), makeInteger(4)>>),
     makeA_Expr(AEXPR_OP),
     makeRangeTblEntry(RTE_TABLEFUNCTION + 1),
     makeSort,
     [makeAgg EXCEPT !.lefttree = [makeSort EXCEPT !.plan_node_id = 2]],
     [makeMotion EXCEPT !.lefttree = Unregistered]}

RTables == {NULL, list_make(T_List, <<makeInteger(1)>>)}

-----------------------------------------------------------------------------
(* The state machine                                                       *)

NoCall ==
    [via |-> "none", obj |-> NULL, returned |-> FALSE, data |-> <<>>, length |-> -1,
     error |-> "", pvf |-> TRUE, rt |-> NULL, walked |-> 0, warned |-> FALSE,
     paths |-> <<>>]

(* no encode is in progress                                                *)
NoEncode == [active |-> FALSE, obj |-> NULL, str |-> initStringInfoOfSize, todo |-> <<>>]

Init ==
    /\ print_variable_fields = TRUE
    /\ range_table = NULL
    /\ failed_assertion = "none"
    /\ last_call = "none"
    /\ opened = FALSE
    /\ at_entry = [pvf |-> TRUE, rt |-> NULL, opened |-> FALSE]
    /\ ret = NoCall
    /\ prev = NoCall
    /\ call = NoEncode

Enter == \E rtable \in RTables : outfast_workfile_mgr_init(rtable)

Exit == outfast_workfile_mgr_end

Encode ==
    \E obj \in Objs :
        /\ failed_assertion = "none"
        /\ last_call' = "nodeToBinaryStringFast"
        /\ ret' = nodeToBinaryStringFast(obj)
        /\ UNCHANGED <<print_variable_fields, range_table, failed_assertion, opened,
                       at_entry, prev, call>>

Next == Enter \/ Exit \/ Encode

Spec == Init /\ [][Next]_vars

(* The same entry points, with the call before kept in prev.               *)
EncodeH ==
    \E obj \in HistObjs :
        /\ failed_assertion = "none"
        /\ last_call' = "nodeToBinaryStringFast"
        /\ ret' = nodeToBinaryStringFast(obj)
        /\ prev' = ret
        /\ UNCHANGED <<print_variable_fields, range_table, failed_assertion, opened,
                       at_entry, call>>

NextHist == Enter \/ Exit \/ EncodeH

SpecHist == Init /\ [][NextHist]_vars

(* The same entry points over expression and statement trees.             *)
EncodeX ==
    \E obj \in ExprObjs :
        /\ failed_assertion = "none"
        /\ last_call' = "nodeToBinaryStringFast"
        /\ ret' = nodeToBinaryStringFast(obj)
        /\ UNCHANGED <<print_variable_fields, range_table, failed_assertion, opened,
                       at_entry, prev, call>>

NextExpr == Enter \/ Exit \/ EncodeX

SpecExpr == Init /\ [][NextExpr]_vars

(* _outList called on a container by itself, on an empty buffer.           *)
CallOutList ==
    \E node \in Containers :
        /\ failed_assertion = "none"
        /\ last_call' = "_outList"
        /\ ret' = Delivered("_outList", node, Run(initStringInfoOfSize, _outList(node)))
        /\ UNCHANGED <<print_variable_fields, range_table, failed_assertion, opened,
                       at_entry, prev, call>>

NextList == Enter \/ Exit \/ CallOutList

SpecList == Init /\ [][NextList]_vars

(* One encode, statement by statement.  call.todo holds the statements     *)
(* still to run, innermost function first; Return marks the place where an *)
(* invocation of _outNode that began with the buffer at length `at`        *)
(* returns to its caller.                                                  *)
Return(obj, at) == [k |-> "return", obj |-> obj, at |-> at]
Running == call.active /\ call.todo # <<>> /\ ~call.str.err
Frame ==
    UNCHANGED <<print_variable_fields, range_table, failed_assertion, last_call, opened,
                at_entry, ret, prev>>

(* the branch of _outNode taken for obj and the statements of that branch  *)
Branch(obj) ==
    IF obj = NULL THEN "null"
    ELSE IF IsA(obj, T_List) \/ IsA(obj, T_IntList) \/ IsA(obj, T_OidList) THEN "_outList"
    ELSE IF IsA(obj, T_Integer) \/ IsA(obj, T_Float) \/ IsA(obj, T_String)
            \/ IsA(obj, T_Null) \/ IsA(obj, T_BitString) THEN "_outValue"
    ELSE "switch"
Body(obj) ==
    CASE Branch(obj) = "null" -> <<Bytes(LE(0, SizeofInt16))>>
      [] Branch(obj) = "_outList" -> _outList(obj)
      [] Branch(obj) = "_outValue" -> _outValue(obj)
      [] Branch(obj) = "switch" -> Dispatch(obj)

(* nodeToBinaryStringFast is entered: the buffer is initialised, the walk  *)
(* of the root and the append of the sentinel lie ahead                    *)
Begin ==
    \E obj \in StepObjs :
        /\ failed_assertion = "none" /\ ~call.active
        /\ last_call' = "nodeToBinaryStringFast"
        /\ call' = [active |-> TRUE, obj |-> obj, str |-> initStringInfoOfSize,
                    todo |-> <<Walk(obj), Bytes(LE(Sentinel, SizeofInt16))>>]
        /\ UNCHANGED <<print_variable_fields, range_table, failed_assertion, opened,
                       at_entry, ret, prev>>

(* one appendBinaryStringInfo                                              *)
AppendBytes ==
    /\ Running /\ Head(call.todo).k = "bytes"
    /\ call' = [call EXCEPT !.str = appendBinaryStringInfo(@, Head(call.todo).b),
                            !.todo = Tail(@)]
    /\ Frame

(* _outNode is called on a reference                                       *)
Descend ==
    /\ Running /\ Head(call.todo).k = "node"
    /\ LET obj == Head(call.todo).obj
       IN  call' = [call EXCEPT !.str = [@ EXCEPT !.walked = @ + 1,
                                                  !.paths = Append(@, Branch(obj))],
                                !.todo = Body(obj) \o <<Return(obj, call.str.len)>>
                                         \o Tail(@)]
    /\ Frame

(* _outNode returns to its caller                                          *)
Ascend ==
    /\ Running /\ Head(call.todo).k = "return"
    /\ call' = [call EXCEPT !.todo = Tail(@)]
    /\ Frame

(* elog(WARNING) returns                                                   *)
Report ==
    /\ Running /\ Head(call.todo).k = "warning"
    /\ call' = [call EXCEPT !.str = [@ EXCEPT !.warned = TRUE], !.todo = Tail(@)]
    /\ Frame

(* elog(ERROR) leaves the encode                                           *)
Abort ==
    /\ Running /\ Head(call.todo).k = "error"
    /\ call' = [call EXCEPT !.str = [@ EXCEPT !.err = TRUE, !.errmsg = Head(call.todo).msg]]
    /\ Frame

(* variant: the mode is put back to its defaults when the encode is left   *)
(* by an error                                                             *)
Finish_cleanup ==
    /\ call.active /\ (call.todo = <<>> \/ call.str.err)
    /\ ret' = Delivered("nodeToBinaryStringFast", call.obj, call.str)
    /\ call' = NoEncode
    /\ IF call.str.err
       THEN print_variable_fields' = TRUE /\ range_table' = NULL
       ELSE UNCHANGED <<print_variable_fields, range_table>>
    /\ UNCHANGED <<failed_assertion, last_call, opened, at_entry, prev>>

(* the caller is back in control: with buffer and length after the last    *)
(* statement, with neither after an error                                  *)
Finish ==
    /\ call.active /\ (call.todo = <<>> \/ call.str.err)
    /\ ret' = Delivered("nodeToBinaryStringFast", call.obj, call.str)
    /\ call' = NoEncode
    /\ UNCHANGED <<print_variable_fields, range_table>>
    /\ UNCHANGED <<failed_assertion, last_call, opened, at_entry, prev>>

(* the bracket calls are made between encodes                              *)
EnterIdle == ~call.active /\ Enter
ExitIdle == ~call.active /\ Exit

NextStep ==
    EnterIdle \/ ExitIdle \/ Begin \/ AppendBytes \/ Descend \/ Ascend \/ Report \/ Abort \/ Finish

SpecStep == Init /\ [][NextStep]_vars

(* _outBitmapset called on a set by itself, on an empty buffer.            *)
CallOutBitmapset ==
    \E bms \in Bitmapsets :
        /\ failed_assertion = "none"
        /\ last_call' = "_outBitmapset"
        /\ ret' = Delivered("_outBitmapset", bms,
                            Run(initStringInfoOfSize, <<_outBitmapset(bms)>>))
        /\ UNCHANGED <<print_variable_fields, range_table, failed_assertion, opened,
                       at_entry, prev, call>>

NextBms == Enter \/ Exit \/ CallOutBitmapset

SpecBms == Init /\ [][NextBms]_vars

-----------------------------------------------------------------------------
(* Properties                                                              *)

(* little-endian bytes of a 16-bit and of a 32-bit value                   *)
Le2(v) == <<v % 256, (v \div 256) % 256>>
Le4(v) == <<v % 256, (v \div 256) % 256, (v \div 65536) % 256, (v \div 16777216) % 256>>
(* 0xDEAD as it lies in memory                                             *)
SentinelBytes == <<173, 222>>

ViaEncode == ret.via = "nodeToBinaryStringFast"
SameMode == ret.pvf = print_variable_fields
(* the walker's output for one reference, on an empty buffer               *)
Walked(obj) == _outNode(initStringInfoOfSize, obj)
EndsInSentinel(data) ==
    Len(data) >= 2 /\ SubSeq(data, Len(data) - 1, Len(data)) = SentinelBytes

RECURSIVE SumSeq(_)
SumSeq(q) == IF q = <<>> THEN 0 ELSE Head(q) + SumSeq(Tail(q))

(* C1: encoding a null root returns exactly the null tag 00 00 followed by *)
(* the sentinel AD DE and reports length 4, in full and in reduced mode.   *)
C1_NullRoot ==
    (ViaEncode /\ ret.obj = NULL) =>
        (ret.returned /\ ret.data = <<0, 0, 173, 222>> /\ ret.length = 4)

C1_Witness == ViaEncode /\ ret.obj = NULL /\ ret.returned /\ ~ret.pvf

(* C2: whenever the encode returns, the last two bytes of the buffer are   *)
(* the sentinel and the reported length is the length of the root's        *)
(* encoding plus 2, whatever the tree and the mode.                        *)
C2_SentinelLast ==
    (ViaEncode /\ ret.returned) =>
        /\ EndsInSentinel(ret.data)
        /\ SameMode => ret.length = Len(Walked(ret.obj).data) + 2

C2_Witness ==
    /\ ViaEncode /\ ret.returned /\ ~ret.pvf
    /\ ret.obj # NULL /\ ret.obj.type = T_Agg
    /\ ret.obj.lefttree # NULL /\ ret.obj.lefttree.type = T_Sort

(* The references the walker visits below a node, in the mode given.       *)
PlanChildren(node, pvf) ==
    <<node.targetlist, node.qual>> \o
    (IF pvf THEN <<node.flow, node.directDispatch.contentIds, node.sliceTable>> ELSE <<>>) \o
    <<node.lefttree, node.righttree, node.initPlan>>
Children(node, pvf) ==
    CASE node.type = T_List -> node.elems
      [] node.type \in {T_Agg} -> PlanChildren(node, pvf)
      [] node.type = T_Sort -> PlanChildren(node, pvf) \o <<node.limitOffset, node.limitCount>>
      [] node.type = T_Motion -> <<node.hashExpr, node.hashDataTypes>> \o PlanChildren(node, pvf)
      [] node.type = T_Flow -> <<node.hashExpr, node.flow_before_req_move>>
      [] OTHER -> <<>>
ListTags == {T_List, T_IntList, T_OidList}
LiteralTags == {T_Integer, T_Float, T_String, T_Null, T_BitString}
Registry == {T_Agg, T_Sort, T_Motion, T_Flow}
RECURSIVE ReachesUnregistered(_, _)
ReachesUnregistered(obj, pvf) ==
    /\ obj # NULL
    /\ \/ obj.type \notin (ListTags \cup LiteralTags \cup Registry)
       \/ \E i \in DOMAIN Children(obj, pvf) : ReachesUnregistered(Children(obj, pvf)[i], pvf)

(* C3: an encode that reaches a node whose tag is no list tag, no literal  *)
(* tag and not in the registry aborts with the fatal error and delivers    *)
(* neither buffer nor length; an encode delivers either the complete       *)
(* buffer ending in the sentinel or an error and nothing else.             *)
C3_UnregisteredAborts ==
    ViaEncode =>
        /\ ReachesUnregistered(ret.obj, ret.pvf) =>
              /\ ~ret.returned
              /\ ret.error = "could not serialize unrecognized node type"
        /\ ret.returned =>
              /\ ret.error = ""
              /\ ret.length = Len(ret.data)
              /\ SameMode => ret.data = Walked(ret.obj).data \o SentinelBytes
        /\ ~ret.returned => (ret.error # "" /\ ret.data = <<>> /\ ret.length = -1)

C3_Witness ==
    /\ ViaEncode /\ ~ret.returned
    /\ ret.obj # NULL /\ ret.obj.type = T_Agg /\ ret.obj.lefttree = Unregistered

Failed == failed_assertion # "none"

(* C4: an init call made while an earlier init has not been closed by an   *)
(* end fails its assertion, whatever table either call passed; an end call *)
(* made while the switch is true fails its assertion.                      *)
C4_GuardsFail ==
    /\ (last_call = "outfast_workfile_mgr_init" /\ at_entry.opened) => Failed
    /\ (last_call = "outfast_workfile_mgr_end" /\ at_entry.pvf) => Failed

C4_Witness ==
    /\ last_call = "outfast_workfile_mgr_init" /\ at_entry.opened
    /\ at_entry.rt = NULL /\ Failed

(* C5 as stated: init fails unless the switch is true and the table is     *)
(* unset, and end fails unless the switch is false and the table is set.   *)
C5_AsStated ==
    /\ last_call = "outfast_workfile_mgr_init" =>
          (Failed <=> ~(at_entry.pvf /\ at_entry.rt = NULL))
    /\ last_call = "outfast_workfile_mgr_end" =>
          (Failed <=> ~(~at_entry.pvf /\ at_entry.rt # NULL))

(* C5, amended: init fails unless the switch is true and the table is      *)
(* unset; end fails exactly when the switch is true, and does not look at  *)
(* the table.                                                              *)
C5_EndChecksSwitchOnly ==
    /\ last_call = "outfast_workfile_mgr_init" =>
          (Failed <=> ~(at_entry.pvf /\ at_entry.rt = NULL))
    /\ last_call = "outfast_workfile_mgr_end" =>
          (Failed <=> at_entry.pvf)

C5_Witness ==
    /\ last_call = "outfast_workfile_mgr_end" /\ ~Failed
    /\ ~at_entry.pvf /\ at_entry.rt = NULL

PlanTags == {T_Agg, T_Sort, T_Motion}
IsPlan(obj) == obj # NULL /\ obj.type \in PlanTags
BothEncoded ==
    /\ prev.via = "nodeToBinaryStringFast" /\ ret.via = "nodeToBinaryStringFast"
    /\ prev.returned /\ ret.returned

(* A plan tree with the named fields, where it has them, set to fixed      *)
(* values at every depth.                                                  *)
RECURSIVE Erase(_, _)
Erase(obj, fields) ==
    IF obj = NULL THEN NULL
    ELSE IF obj.type = T_List
    THEN [obj EXCEPT !.elems = [i \in DOMAIN obj.elems |-> Erase(obj.elems[i], fields)]]
    ELSE IF obj.type \in PlanTags
    THEN [f \in DOMAIN obj |->
            IF f \in fields THEN 0
            ELSE IF f \in {"lefttree", "righttree", "initPlan"} THEN Erase(obj[f], fields)
            ELSE obj[f]]
    ELSE obj

CostFields == {"startup_cost", "total_cost", "plan_rows", "plan_width"}
NodeIdFields == {"plan_node_id", "plan_parent_node_id"}
SliceIdFields == {"motionID", "driver_slice"}

(* C6 as stated: two plan trees that are the same but for cost estimates   *)
(* and node or slice identifiers encode to the same bytes in reduced mode  *)
(* and to different bytes in full mode.                                    *)
C6_AsStated ==
    (/\ BothEncoded /\ IsPlan(prev.obj) /\ IsPlan(ret.obj) /\ prev.obj # ret.obj
     /\ Erase(prev.obj, CostFields \cup NodeIdFields \cup SliceIdFields)
          = Erase(ret.obj, CostFields \cup NodeIdFields \cup SliceIdFields))
    => /\ (~prev.pvf /\ ~ret.pvf) => prev.data = ret.data
       /\ (prev.pvf /\ ret.pvf) => prev.data # ret.data

(* C6, amended: two plan trees that are the same but for cost estimates    *)
(* (startup_cost, total_cost, plan_rows, plan_width) and plan-node         *)
(* identifiers (plan_node_id, plan_parent_node_id) encode to the same      *)
(* bytes in reduced mode and to different bytes in full mode.              *)
C6_CostsAndNodeIds ==
    (/\ BothEncoded /\ IsPlan(prev.obj) /\ IsPlan(ret.obj) /\ prev.obj # ret.obj
     /\ Erase(prev.obj, CostFields \cup NodeIdFields)
          = Erase(ret.obj, CostFields \cup NodeIdFields))
    => /\ (~prev.pvf /\ ~ret.pvf) => prev.data = ret.data
       /\ (prev.pvf /\ ret.pvf) => prev.data # ret.data

C6_Witness ==
    /\ BothEncoded /\ ~prev.pvf /\ ~ret.pvf
    /\ IsPlan(prev.obj) /\ IsPlan(ret.obj) /\ prev.obj.type = T_Motion
    /\ prev.obj # ret.obj
    /\ Erase(prev.obj, CostFields \cup NodeIdFields) = Erase(ret.obj, CostFields \cup NodeIdFields)

IsListOf(obj, tags) == obj # NULL /\ obj.type \in tags

(* C8: a non-null generic list of N cells encodes as its 2-byte tag, the   *)
(* 4-byte count N, then the walker's encoding of each cell in list order,  *)
(* the walker being invoked once per cell.                                 *)
C8_GenericList ==
    (ViaEncode /\ ret.returned /\ SameMode /\ IsListOf(ret.obj, {T_List})) =>
        LET n == Len(ret.obj.elems)
            each == [i \in 1..n |-> Walked(ret.obj.elems[i])]
        IN  /\ ret.data = Le2(T_List) \o Le4(n)
                            \o Flatten([i \in 1..n |-> each[i].data]) \o SentinelBytes
            /\ ret.walked = 1 + SumSeq([i \in 1..n |-> each[i].walked])
            /\ \A i \in 1..n : ret.obj.elems[i] = NULL => each[i].data = <<0, 0>>

C8_Witness ==
    /\ ViaEncode /\ ret.returned /\ IsListOf(ret.obj, {T_List})
    /\ ret.obj.elems = <<NULL, list_make(T_IntList, <<3>>)>>

(* C9: a non-null integer or identifier list of N cells encodes as its     *)
(* 2-byte tag, the 4-byte count N and N raw 4-byte values in list order,   *)
(* 2 + 4 + 4 * N bytes in all, and the walker is invoked on no cell.       *)
C9_ScalarList ==
    (ViaEncode /\ IsListOf(ret.obj, {T_IntList, T_OidList})) =>
        LET n == Len(ret.obj.elems)
        IN  /\ ret.returned
            /\ ret.data = Le2(ret.obj.type) \o Le4(n)
                            \o Flatten([i \in 1..n |-> Le4(ret.obj.elems[i])]) \o SentinelBytes
            /\ ret.length - Len(SentinelBytes) = 2 + 4 + 4 * n
            /\ ret.walked = 1

C9_Witness ==
    /\ ViaEncode /\ ret.returned /\ IsListOf(ret.obj, {T_IntList})
    /\ Len(ret.obj.elems) >= 2 /\ ret.obj.elems[1] < 0

(* C10: _outList writes a null container as the two bytes 00 00 and        *)
(* nothing else, the same bytes the walker writes for a null node; the     *)
(* encoding of a non-null container does not begin with 00 00.             *)
C10_NullContainer ==
    ret.via = "_outList" =>
        /\ ret.obj = NULL =>
              (ret.returned /\ ret.data = <<0, 0>> /\ ret.data = Walked(NULL).data)
        /\ (ret.obj # NULL /\ ret.returned) =>
              (Len(ret.data) >= 6 /\ SubSeq(ret.data, 1, 2) # <<0, 0>>)

C10_Witness == ret.via = "_outList" /\ ret.obj = NULL /\ ret.returned

-----------------------------------------------------------------------------
(* a string field on the wire: 4-byte length, then the characters          *)
StringOnWire(s) == IF s = NULL THEN Le4(0) ELSE Le4(Len(s.chars)) \o s.chars
StringLeafTags == {T_Float, T_String, T_BitString}
NoExtraConstr ==
    {CONSTR_NOTNULL, CONSTR_NULL, CONSTR_ATTR_DEFERRABLE, CONSTR_ATTR_NOT_DEFERRABLE,
     CONSTR_ATTR_DEFERRED, CONSTR_ATTR_IMMEDIATE}

(* C11: a string is written as a 4-byte length L and exactly L characters, *)
(* without terminator; a null string and an empty string are both written  *)
(* as the four bytes of length 0 and nothing else.                         *)
C11_StringField ==
    (ViaEncode /\ ret.returned /\ ret.obj # NULL) =>
        /\ nodeTag(ret.obj) \in StringLeafTags =>
            /\ ret.data = Le2(nodeTag(ret.obj)) \o StringOnWire(ret.obj.val.str)
                              \o SentinelBytes
            /\ (ret.obj.val.str = NULL \/ ret.obj.val.str = CString(<<>>)) =>
                    ret.data = Le2(nodeTag(ret.obj)) \o <<0, 0, 0, 0>> \o SentinelBytes
        /\ (IsA(ret.obj, T_Constraint) /\ ret.obj.contype \in NoExtraConstr) =>
            /\ ret.data = Le2(T_Constraint) \o StringOnWire(ret.obj.name)
                              \o Le4(ret.obj.conoid) \o Le2(ret.obj.contype)
                              \o SentinelBytes
            /\ (ret.obj.name = NULL \/ ret.obj.name = CString(<<>>)) =>
                    SubSeq(ret.data, 3, 6) = <<0, 0, 0, 0>> /\ ret.length = 14

C11_Witness ==
    /\ ViaEncode /\ ret.returned /\ ret.obj # NULL
    /\ IsA(ret.obj, T_Constraint) /\ ret.obj.contype = CONSTR_NOTNULL
    /\ ret.obj.name = CString(<<99, 107>>)
    /\ ret.length = 16

-----------------------------------------------------------------------------
Closed == last_call = "outfast_workfile_mgr_end" /\ ~Failed

(* C12: when outfast_workfile_mgr_end has closed a bracket, the switch is  *)
(* true and the reference table is unset again; an init call made next     *)
(* passes its assertions, and an encode made next is in full mode: an Agg  *)
(* or Sort at the root has its node ids right after its tag.               *)
C12_BracketRestores ==
    [][Closed =>
        /\ print_variable_fields = TRUE /\ range_table = NULL /\ ~opened
        /\ last_call' = "outfast_workfile_mgr_init" =>
                failed_assertion' = "none" /\ print_variable_fields' = FALSE
        /\ last_call' = "nodeToBinaryStringFast" =>
            /\ ret'.pvf = TRUE
            /\ (ret'.obj # NULL /\ ret'.obj.type \in {T_Agg, T_Sort} /\ ret'.returned) =>
                    SubSeq(ret'.data, 3, 10) = Le4(ret'.obj.plan_node_id)
                                               \o Le4(ret'.obj.plan_parent_node_id)]_vars

C12_Witness ==
    /\ Closed
    /\ at_entry.rt # NULL /\ ~at_entry.pvf
    /\ ViaEncode /\ ret.returned /\ ~ret.pvf /\ ret.rt # NULL

-----------------------------------------------------------------------------
(* every reference held by a node that is no plan node                     *)
NodeFields(obj) ==
    CASE obj.type = T_List -> obj.elems
      [] obj.type = T_PlannedStmt ->
            <<obj.planTree, obj.rtable, obj.resultRelations, obj.utilityStmt,
              obj.intoClause, obj.subplans, obj.rewindPlanIDs, obj.returningLists,
              obj.result_partitions, obj.result_aosegnos, obj.queryPartOids,
              obj.queryPartsMetadata, obj.numSelectorsPerScanId, obj.rowMarks,
              obj.relationOids, obj.invalItems, obj.sliceTable, obj.transientTypeRecords>>
      [] obj.type = T_Flow -> <<obj.hashExpr, obj.flow_before_req_move>>
      [] obj.type = T_RangeTblEntry ->
            <<obj.alias, obj.eref, obj.subquery, obj.ctecoltypes, obj.ctecoltypmods,
              obj.funcexpr, obj.funccoltypes, obj.funccoltypmods, obj.values_lists,
              obj.joinaliasvars>>
      [] obj.type = T_A_Expr -> <<obj.name, obj.lexpr, obj.rexpr>>
      [] obj.type = T_A_Const -> <<obj.typname>>
      [] obj.type = T_Constraint -> <<obj.keys, obj.options, obj.raw_expr>>
      [] OTHER -> <<>>
RECURSIVE HasPlanShape(_)
HasPlanShape(obj) ==
    /\ obj # NULL
    /\ \/ obj.type \in PlanTags
       \/ \E i \in DOMAIN NodeFields(obj) : HasPlanShape(NodeFields(obj)[i])

(* C13: a tree without plan node encodes in reduced mode to what it        *)
(* encodes to in full mode, bytes, length and error alike; a tree with a   *)
(* plan node that encodes in both modes encodes to different bytes.        *)
C13_PlanShapesOnly ==
    (ViaEncode /\ ~SameMode) =>
        LET other == nodeToBinaryStringFast(ret.obj)
        IN  /\ ~HasPlanShape(ret.obj) =>
                /\ other.returned = ret.returned
                /\ other.data = ret.data
                /\ other.length = ret.length
                /\ other.error = ret.error
            /\ (HasPlanShape(ret.obj) /\ ret.returned) =>
                (other.returned /\ other.data # ret.data)

C13_Witness ==
    /\ ViaEncode /\ ~SameMode /\ ret.returned /\ ~ret.pvf
    /\ ret.obj # NULL /\ IsA(ret.obj, T_PlannedStmt)
    /\ ret.obj.rtable # NULL /\ ~HasPlanShape(ret.obj)

-----------------------------------------------------------------------------
(* every tag a node, list or literal of the model carries                  *)
NodeTags ==
    {T_IndexInfo, T_PlannedStmt, T_Agg, T_Sort, T_Motion, T_Const, T_Flow,
     T_RangeTblEntry, T_A_Expr, T_A_Const, T_Constraint} \cup ListTags \cup LiteralTags
TagAt(data, pos) == SubSeq(data, pos, pos + 1)

(* C14: in a returned buffer the root position holds 00 00 exactly for a   *)
(* null root and otherwise the root's own tag, and so does the position of *)
(* the first cell of a generic list; the last two bytes are neither 00 00  *)
(* nor the two bytes of any tag.                                           *)
C14_TagPartition ==
    (ViaEncode /\ ret.returned) =>
        /\ ret.obj = NULL <=> TagAt(ret.data, 1) = Le2(T_Invalid)
        /\ ret.obj # NULL =>
            /\ nodeTag(ret.obj) \in NodeTags
            /\ TagAt(ret.data, 1) = Le2(nodeTag(ret.obj))
            /\ IsA(ret.obj, T_List) =>
                LET cell == ret.obj.elems[1]
                IN  /\ cell = NULL <=> TagAt(ret.data, 7) = Le2(T_Invalid)
                    /\ cell # NULL => TagAt(ret.data, 7) = Le2(nodeTag(cell))
        /\ TagAt(ret.data, ret.length - 1) \notin {Le2(t) : t \in NodeTags \cup {T_Invalid}}
        /\ T_Invalid \notin NodeTags

C14_Witness ==
    /\ ViaEncode /\ ret.returned
    /\ ret.obj # NULL /\ IsA(ret.obj, T_List)
    /\ ret.obj.elems[1] # NULL /\ IsA(ret.obj.elems[1], T_Constraint)
    /\ TagAt(ret.data, ret.length - 1) = SentinelBytes

-----------------------------------------------------------------------------
(* the path the walker is to take for a reference                          *)
PathOf(obj) ==
    IF obj = NULL THEN "null"
    ELSE IF nodeTag(obj) \in ListTags THEN "_outList"
    ELSE IF nodeTag(obj) \in LiteralTags THEN "_outValue"
    ELSE "switch"
SwitchTags ==
    {T_PlannedStmt, T_Agg, T_Sort, T_Motion, T_Const, T_Flow, T_RangeTblEntry, T_A_Expr,
     T_A_Const, T_Constraint}

(* C15: every reference the walker is handed takes one path; the root and  *)
(* the first cell of a generic list take the path of their class: null     *)
(* gives 00 00, a list goes to _outList, a literal to _outValue, any other *)
(* node to the switch, which runs the encoder of its tag or raises.        *)
C15_WalkerPaths ==
    ViaEncode =>
        /\ Len(ret.paths) = ret.walked
        /\ ret.walked >= 1
        /\ ret.paths[1] = PathOf(ret.obj)
        /\ (ret.obj # NULL /\ IsA(ret.obj, T_List)) =>
                (ret.walked >= 2 /\ ret.paths[2] = PathOf(ret.obj.elems[1]))
        /\ PathOf(ret.obj) = "null" => ret.data = Le2(T_Invalid) \o SentinelBytes
        /\ (PathOf(ret.obj) = "_outList" /\ ret.returned) =>
                SubSeq(ret.data, 1, 6) = Le2(nodeTag(ret.obj)) \o Le4(ret.obj.length)
        /\ (PathOf(ret.obj) = "_outValue" /\ IsA(ret.obj, T_Integer)) =>
                ret.data = Le2(T_Integer) \o LE(ret.obj.val.ival, SizeofLong) \o SentinelBytes
        /\ (PathOf(ret.obj) = "_outValue" /\ IsA(ret.obj, T_Null)) =>
                ret.data = Le2(T_Null) \o SentinelBytes
        /\ PathOf(ret.obj) = "switch" =>
                IF nodeTag(ret.obj) \in SwitchTags
                THEN ret.error # "could not serialize unrecognized node type"
                     /\ (ret.returned => TagAt(ret.data, 1) = Le2(nodeTag(ret.obj)))
                ELSE ~ret.returned
                     /\ ret.error = "could not serialize unrecognized node type"

C15_Witness ==
    /\ ViaEncode /\ ret.returned
    /\ ret.obj # NULL /\ IsA(ret.obj, T_List)
    /\ ret.paths = <<"_outList", "switch", "null">>

-----------------------------------------------------------------------------
(* the bytes the walker writes for a reference without plan node           *)
W(obj) == Walked(obj).data
RTEHead(node) ==
    Le2(T_RangeTblEntry) \o W(node.alias) \o W(node.eref) \o Le2(node.rtekind)
RTETrailer(node) ==
    <<IF node.inh THEN 1 ELSE 0, IF node.inFromCl THEN 1 ELSE 0>> \o
    LE(node.requiredPerms, 4) \o LE(node.checkAsUser, 4) \o
    <<IF node.forceDistRandom THEN 1 ELSE 0>>
KnownRTEKinds ==
    {RTE_RELATION, RTE_SUBQUERY, RTE_JOIN, RTE_SPECIAL, RTE_FUNCTION, RTE_VALUES, RTE_VOID,
     RTE_CTE, RTE_TABLEFUNCTION}
AExprHead(node) == Le2(T_A_Expr) \o Le2(node.kind)
AExprRest(node) == W(node.lexpr) \o W(node.rexpr) \o LE(node.location, 4)
NamedAExprKinds ==
    {AEXPR_OP, AEXPR_OP_ANY, AEXPR_OP_ALL, AEXPR_DISTINCT, AEXPR_NULLIF, AEXPR_OF, AEXPR_IN}
BareAExprKinds == {AEXPR_AND, AEXPR_OR, AEXPR_NOT}
ConstraintHead(node) ==
    Le2(T_Constraint) \o StringOnWire(node.name) \o LE(node.conoid, 4) \o Le2(node.contype)
KeyConstr == {CONSTR_PRIMARY, CONSTR_UNIQUE}
ExprConstr == {CONSTR_CHECK, CONSTR_DEFAULT}
HandledConstr == KeyConstr \cup ExprConstr \cup NoExtraConstr
UnionRoot ==
    /\ ViaEncode /\ ret.obj # NULL
    /\ nodeTag(ret.obj) \in {T_RangeTblEntry, T_A_Expr, T_Constraint}
UnrecognizedSubKind ==
    \/ IsA(ret.obj, T_RangeTblEntry) /\ ret.obj.rtekind \notin KnownRTEKinds
    \/ IsA(ret.obj, T_A_Expr) /\ ret.obj.kind \notin (NamedAExprKinds \cup BareAExprKinds)
    \/ IsA(ret.obj, T_Constraint) /\ ret.obj.contype \notin HandledConstr

(* the sub-kind code precedes the fields of the sub-kind, and a sub-kind   *)
(* without fields of its own adds nothing                                  *)
SubKindLayout ==
    (UnionRoot /\ ret.returned) =>
        LET node == ret.obj
        IN  /\ IsA(node, T_RangeTblEntry) =>
                /\ SubSeq(ret.data, 1, Len(RTEHead(node))) = RTEHead(node)
                /\ node.rtekind = RTE_VOID =>
                        ret.data = RTEHead(node) \o RTETrailer(node) \o SentinelBytes
                /\ node.rtekind \in {RTE_RELATION, RTE_SPECIAL} =>
                        ret.data = RTEHead(node) \o LE(node.relid, 4) \o RTETrailer(node)
                                   \o SentinelBytes
                /\ node.rtekind = RTE_CTE =>
                        SubSeq(ret.data, 1, Len(RTEHead(node)) + Len(StringOnWire(node.ctename)))
                            = RTEHead(node) \o StringOnWire(node.ctename)
            /\ IsA(node, T_A_Expr) =>
                /\ node.kind \in BareAExprKinds =>
                        ret.data = AExprHead(node) \o AExprRest(node) \o SentinelBytes
                /\ node.kind \in NamedAExprKinds =>
                        ret.data = AExprHead(node) \o W(node.name) \o AExprRest(node)
                                   \o SentinelBytes
            /\ IsA(node, T_Constraint) =>
                /\ node.contype \in NoExtraConstr =>
                        ret.data = ConstraintHead(node) \o SentinelBytes
                /\ node.contype \in KeyConstr =>
                        ret.data = ConstraintHead(node) \o W(node.keys) \o W(node.options)
                                   \o StringOnWire(node.indexspace) \o SentinelBytes
                /\ node.contype \in ExprConstr =>
                        ret.data = ConstraintHead(node) \o W(node.raw_expr)
                                   \o StringOnWire(node.cooked_expr) \o SentinelBytes

-----------------------------------------------------------------------------
Unhandled(node) ==
    node # NULL /\ IsA(node, T_Constraint) /\ node.contype \notin HandledConstr

(* C17: a Constraint whose contype has no case is written as tag, name,    *)
(* conoid and contype and nothing else, a warning is reported, and the     *)
(* encode goes on: at the root the sentinel follows, in a list the next    *)
(* cell follows, and the encode returns the whole buffer.                  *)
C17_ConstraintWarns ==
    (ViaEncode /\ ret.obj # NULL) =>
        /\ Unhandled(ret.obj) =>
            /\ ret.returned /\ ret.warned /\ ret.error = ""
            /\ ret.data = Le2(T_Constraint) \o StringOnWire(ret.obj.name)
                           \o LE(ret.obj.conoid, 4) \o Le2(ret.obj.contype) \o SentinelBytes
            /\ ret.length = Len(ret.data)
        /\ (IsA(ret.obj, T_List) /\ Unhandled(ret.obj.elems[1]) /\ ret.obj.length = 2) =>
            LET node == ret.obj.elems[1]
                next == Walked(ret.obj.elems[2])
            IN  ~next.err =>
                /\ ret.returned /\ ret.warned
                /\ ret.data = Le2(T_List) \o LE(2, 4) \o ConstraintHead(node) \o next.data
                               \o SentinelBytes
        /\ (~Unhandled(ret.obj) /\ IsA(ret.obj, T_Constraint)) => ~ret.warned

C17_Witness ==
    /\ ViaEncode /\ ret.returned /\ ret.warned
    /\ ret.obj # NULL /\ IsA(ret.obj, T_List) /\ Unhandled(ret.obj.elems[1])
    /\ ret.obj.elems[2] = makeInteger(4)
    /\ EndsInSentinel(ret.data) /\ ret.length = 31

-----------------------------------------------------------------------------
(* the base block of a plan node as _outPlanInfo writes it by itself       *)
BaseBlock(node) == Run(initStringInfoOfSize, _outPlanInfo(node)).data
PlanRoot == ViaEncode /\ ret.returned /\ SameMode /\ IsPlan(ret.obj)

(* C18 as stated: in the encoding of every plan node the base block        *)
(* follows the tag at once.                                                *)
C18_AsStated ==
    PlanRoot => SubSeq(ret.data, 3, 2 + Len(BaseBlock(ret.obj))) = BaseBlock(ret.obj)

(* C18: Agg and Sort are written as tag, base block, own fields: the base  *)
(* block follows the tag at once and the first own field follows the base  *)
(* block.  Motion is written as tag, own fields, base block: motionID      *)
(* follows the tag and the base block is the last thing before the         *)
(* sentinel.                                                               *)
C18_BaseBlockPlace ==
    PlanRoot =>
        LET node == ret.obj
            base == BaseBlock(node)
            n == Len(base)
        IN  /\ IsA(node, T_Agg) =>
                /\ SubSeq(ret.data, 3, 2 + n) = base
                /\ SubSeq(ret.data, 3 + n, 4 + n) = Le2(node.aggstrategy)
            /\ IsA(node, T_Sort) =>
                /\ SubSeq(ret.data, 3, 2 + n) = base
                /\ SubSeq(ret.data, 3 + n, 6 + n) = LE(node.numCols, 4)
            /\ IsA(node, T_Motion) =>
                /\ SubSeq(ret.data, 3, 8) = LE(node.motionID, 4) \o Le2(node.motionType)
                /\ SubSeq(ret.data, ret.length - 1 - n, ret.length - 2) = base
                /\ SubSeq(ret.data, 3, 2 + n) # base

C18_Witness ==
    /\ PlanRoot /\ IsA(ret.obj, T_Motion)
    /\ ret.obj.lefttree # NULL /\ ret.pvf

-----------------------------------------------------------------------------
ConstRoot == ViaEncode /\ ret.obj # NULL /\ IsA(ret.obj, T_Const)
ConstHead(node) ==
    Le2(T_Const) \o LE(node.consttype, 4) \o LE(node.constlen, 4) \o
    <<IF node.constbyval THEN 1 ELSE 0, IF node.constisnull THEN 1 ELSE 0>>
(* what lies between the header of a Const and the sentinel                *)
ConstPayload == SubSeq(ret.data, Len(ConstHead(ret.obj)) + 1, ret.length - 2)

(* C19: a Const is written as tag, consttype, constlen, constbyval and     *)
(* constisnull; nothing follows when constisnull is set, whatever          *)
(* constvalue holds, and the value as _outDatum writes it follows when it  *)
(* is not set.                                                             *)
C19_ConstPayload ==
    ConstRoot =>
        LET node == ret.obj
        IN  /\ ret.returned
            /\ SubSeq(ret.data, 1, 12) = ConstHead(node)
            /\ EndsInSentinel(ret.data)
            /\ node.constisnull <=> ConstPayload = <<>>
            /\ ~node.constisnull =>
                    ConstPayload =
                        Run(initStringInfoOfSize,
                            _outDatum(node.constvalue, node.constlen, node.constbyval)).data

C19_Witness ==
    /\ ConstRoot /\ ret.returned
    /\ ret.obj.constisnull /\ ~ret.obj.constbyval /\ ret.obj.constvalue.ptr # NULL
    /\ ret.length = 14

(* C20: the value of a Const that is not null is, by value, the eight      *)
(* bytes of the word and nothing else; by reference with a valid pointer,  *)
(* the eight bytes of the length and that many bytes from the pointer;     *)
(* by reference with a null pointer, eight bytes of 0.  The user data of a *)
(* table function entry is written as a by-reference value of the length  *)
(* of its memory.                                                          *)
C20_OpaqueValue ==
    /\ (ConstRoot /\ ret.returned /\ ~ret.obj.constisnull) =>
        LET node == ret.obj
            value == node.constvalue
        IN  /\ node.constbyval =>
                (ConstPayload = LE(value.word, 8) /\ Len(ConstPayload) = 8)
            /\ (~node.constbyval /\ value.ptr = NULL) => ConstPayload = LE(0, 8)
            /\ (~node.constbyval /\ value.ptr # NULL) =>
                LET n == IF node.constlen > 0 THEN node.constlen ELSE Len(value.ptr.mem)
                IN  /\ ConstPayload = LE(n, 8) \o SubSeq(value.ptr.mem, 1, n)
                    /\ Len(ConstPayload) = 8 + n
    /\ (ViaEncode /\ ret.returned /\ ret.obj # NULL /\ IsA(ret.obj, T_RangeTblEntry)
            /\ ret.obj.rtekind = RTE_TABLEFUNCTION) =>
        LET node == ret.obj
            front == RTEHead(node) \o W(node.subquery) \o W(node.funcexpr)
                     \o W(node.funccoltypes) \o W(node.funccoltypmods)
            bytea == IF node.funcuserdata = NULL THEN LE(0, 8)
                     ELSE LE(Len(node.funcuserdata.mem), 8) \o node.funcuserdata.mem
        IN  ret.data = front \o bytea \o RTETrailer(node) \o SentinelBytes

C20_Witness ==
    /\ ConstRoot /\ ret.returned
    /\ ~ret.obj.constisnull /\ ~ret.obj.constbyval /\ ret.obj.constvalue.ptr # NULL
    /\ ret.obj.constlen = -1
    /\ ConstPayload = <<3, 0, 0, 0, 0, 0, 0, 0, 12, 0, 7>>

-----------------------------------------------------------------------------
ViaBitmapset == ret.via = "_outBitmapset"

(* C21: a set is written as the 4-byte count w of its words and then its   *)
(* w words, 4 bytes each, in index order, 4 + 4 * w bytes in all; a null   *)
(* set is written as the four bytes of the count 0.                        *)
C21_BitmapsetWords ==
    ViaBitmapset =>
        LET bms == ret.obj
            w == IF bms = NULL THEN 0 ELSE bms.nwords
        IN  /\ ret.returned
            /\ ret.length = 4 + w * SizeofBitmapword
            /\ Len(ret.data) = ret.length
            /\ SubSeq(ret.data, 1, 4) = LE(w, 4)
            /\ \A i \in 1..w :
                    SubSeq(ret.data, 5 + SizeofBitmapword * (i - 1), 4 + SizeofBitmapword * i)
                        = LE(bms.words[i], SizeofBitmapword)
            /\ bms = NULL => ret.data = <<0, 0, 0, 0>>

C21_Witness ==
    /\ ViaBitmapset /\ ret.returned /\ ret.obj # NULL
    /\ ret.obj.words = <<5, 65537>>
    /\ ret.data = <<2, 0, 0, 0, 5, 0, 0, 0, 1, 0, 1, 0>>

-----------------------------------------------------------------------------
(* a literal on the wire: its kind, then the payload of the kind           *)
ValueOnWire(value) ==
    Le2(value.type) \o
    (IF value.type = T_Integer THEN LE(value.val.ival, 8)
     ELSE IF value.type \in StringLeafTags THEN StringOnWire(value.val.str)
     ELSE <<>>)

(* C22: a literal is written as its 2-byte kind and then eight bytes of    *)
(* the signed value for an Integer, the length-prefixed text for a Float,  *)
(* String or BitString, nothing for a Null; the literal inside an A_Const  *)
(* is written the same way between the tag and typname, and when its kind  *)
(* is none of the five the encode aborts with the fatal error.             *)
C22_ValueLeaf ==
    (ViaEncode /\ ret.obj # NULL) =>
        /\ nodeTag(ret.obj) \in LiteralTags =>
            /\ ret.returned
            /\ ret.data = ValueOnWire(ret.obj) \o SentinelBytes
            /\ IsA(ret.obj, T_Integer) => ret.length = 2 + 8 + 2
            /\ IsA(ret.obj, T_Null) => ret.length = 2 + 2
        /\ IsA(ret.obj, T_A_Const) =>
            IF ret.obj.val.type \in LiteralTags
            THEN /\ ret.returned
                 /\ ret.data = Le2(T_A_Const) \o ValueOnWire(ret.obj.val) \o W(ret.obj.typname)
                                \o LE(ret.obj.location, 4) \o SentinelBytes
            ELSE /\ ~ret.returned
                 /\ ret.error = "unrecognized node type"

C22_Witness ==
    /\ ViaEncode /\ ret.obj # NULL /\ IsA(ret.obj, T_A_Const)
    /\ ret.obj.val.type = T_List
    /\ ~ret.returned /\ ret.error = "unrecognized node type"

-----------------------------------------------------------------------------
(* a plan node without its two subtrees, and its encoding in this mode     *)
Childless(node) == [node EXCEPT !.lefttree = NULL, !.righttree = NULL]
Bare(node) == nodeToBinaryStringFast(Childless(node)).data

(* C23: the encoding of a plan node is that of the node without subtrees   *)
(* with the two null tags of lefttree and righttree replaced by the        *)
(* encodings the walker gives the two subtrees on an empty buffer, the     *)
(* same subtree twice giving the same bytes twice; a list holding one cell *)
(* twice holds the cell's encoding twice, and every reference is walked.   *)
C23_IndependentSubtrees ==
    (ViaEncode /\ ret.returned /\ SameMode /\ ret.obj # NULL) =>
        /\ IsPlan(ret.obj) =>
            LET l == Walked(ret.obj.lefttree)
                r == Walked(ret.obj.righttree)
                bare == Bare(ret.obj)
            IN  /\ \E k \in 1..(Len(bare) - 4) :
                    /\ SubSeq(bare, k + 1, k + 4) = <<0, 0, 0, 0>>
                    /\ ret.data = SubSeq(bare, 1, k) \o l.data \o r.data
                                  \o SubSeq(bare, k + 5, Len(bare))
                /\ ret.length = Len(bare) - 4 + Len(l.data) + Len(r.data)
                /\ ret.walked = Walked(Childless(ret.obj)).walked - 2 + l.walked + r.walked
        /\ (IsA(ret.obj, T_List) /\ ret.obj.length = 2
                /\ ret.obj.elems[1] = ret.obj.elems[2]) =>
            LET c == Walked(ret.obj.elems[1])
            IN  /\ ret.data = Le2(T_List) \o LE(2, 4) \o c.data \o c.data \o SentinelBytes
                /\ ret.walked = 1 + 2 * c.walked

C23_Witness ==
    /\ ViaEncode /\ ret.returned /\ SameMode /\ ret.obj # NULL
    /\ IsPlan(ret.obj) /\ IsA(ret.obj, T_Motion)
    /\ ret.obj.lefttree # NULL /\ ret.obj.righttree = ret.obj.lefttree
    /\ ret.walked = 2 * Walked(ret.obj.lefttree).walked + Walked(Childless(ret.obj)).walked - 2

-----------------------------------------------------------------------------
IsPrefix(a, b) == Len(a) <= Len(b) /\ SubSeq(b, 1, Len(a)) = a
(* the buffer the encode of obj is left with, run as a whole               *)
WholeRun(obj) ==
    Run(initStringInfoOfSize, <<Walk(obj), Bytes(LE(Sentinel, SizeofInt16))>>)
NextStatement == Head(call.todo)

(* C24: a statement of an encode leaves the bytes already in the buffer in *)
(* place, and the buffer is at all times a prefix of what the encode ends  *)
(* with; when the walker is called on a node the next thing appended is    *)
(* the node's tag (a node without case raises at once instead); when the walker returns, what was appended since its    *)
(* call is the complete encoding of its reference, and only then does the  *)
(* caller go on; the encode run statement by statement delivers what the   *)
(* encode run as a whole delivers.                                         *)
C24_PreOrderAppendOnly ==
    [][call.active =>
        /\ call'.active => IsPrefix(call.str.data, call'.str.data)
        /\ IsPrefix(call.str.data, WholeRun(call.obj).data)
        /\ (Running /\ NextStatement.k = "node" /\ NextStatement.obj # NULL) =>
            /\ IF nodeTag(NextStatement.obj) \in (SwitchTags \cup ListTags \cup LiteralTags)
               THEN /\ Head(call'.todo).k = "bytes"
                    /\ SubSeq(Head(call'.todo).b, 1, 2) = Le2(nodeTag(NextStatement.obj))
               ELSE Head(call'.todo).k = "error"
            /\ call'.str.data = call.str.data
        /\ (Running /\ NextStatement.k = "return") =>
            /\ SubSeq(call.str.data, NextStatement.at + 1, Len(call.str.data))
                    = Walked(NextStatement.obj).data
            /\ call'.str.data = call.str.data
            /\ call'.todo = Tail(call.todo)
        /\ ~call'.active => ret' = nodeToBinaryStringFast(call.obj)]_vars

C24_Witness ==
    /\ Running /\ NextStatement.k = "return"
    /\ call.obj # NULL /\ IsA(call.obj, T_Agg)
    /\ NextStatement.obj # NULL /\ IsA(NextStatement.obj, T_Sort)
    /\ NextStatement.at > 2
    /\ Len(call.str.data) > NextStatement.at + 2

-----------------------------------------------------------------------------
Aborting == call.active /\ call.str.err

(* C25: no statement of an encode, from its entry to its return or its     *)
(* abort, assigns the switch or the reference table; an encode that aborts *)
(* inside a bracket hands control back with the switch false and the table *)
(* as init set it, and the bracket stays open: while it is, every encode   *)
(* begun runs in reduced mode.                                             *)
C25_EncodeKeepsMode ==
    [][/\ (call.active \/ call'.active) =>
            /\ print_variable_fields' = print_variable_fields
            /\ range_table' = range_table
            /\ opened' = opened
       /\ (Aborting /\ ~call'.active) =>
            /\ ~ret'.returned
            /\ ret'.pvf = print_variable_fields' /\ ret'.rt = range_table'
            /\ opened => (~print_variable_fields' /\ opened')
       /\ (opened /\ failed_assertion = "none") => ~print_variable_fields
       /\ (opened /\ failed_assertion = "none" /\ ~call.active /\ call'.active) =>
            ~print_variable_fields']_vars

C25_Witness ==
    /\ call.active /\ call.str.len > 0
    /\ ViaEncode /\ ~ret.returned /\ ~ret.pvf /\ ret.rt # NULL
    /\ opened /\ ~print_variable_fields /\ range_table = ret.rt
    /\ failed_assertion = "none"

-----------------------------------------------------------------------------
(* C26: whenever the switch is true the reference table is unset; the      *)
(* table is set only inside a bracket, where the switch is false.          *)
C26_TableOnlyInReducedMode ==
    /\ print_variable_fields => range_table = NULL
    /\ range_table # NULL => (~print_variable_fields /\ opened)

C26_Witness ==
    /\ ~print_variable_fields /\ range_table = NULL
    /\ opened /\ failed_assertion = "none"
    /\ last_call = "nodeToBinaryStringFast" /\ ~ret.pvf
====
